---- MODULE Spec2Model ----
(***************************************************************************)
(* Godwoken: the account lock algorithms (Secp256k1, Secp256k1Eth,         *)
(* Secp256k1Tron) of crates/generator/src/account_lock_manage/secp256k1.rs *)
(*                                                                         *)
(* Byte strings are sequences over 0..255 with the layout of the source.   *)
(* Unsigned integers are kept as fixed-width big-endian byte strings, so   *)
(* that u32, u64 and u128 values keep their width.  The external           *)
(* libraries are modelled in miniature: recoverable ECDSA over a           *)
(* prime-order group written additively (the scalars modulo CurveOrder,    *)
(* generator 1), and the hash functions as injective numberings of their   *)
(* preimages (an H256 is the number of its preimage).                      *)
(***************************************************************************)
EXTENDS Integers, Sequences, FiniteSets, TLC

VARIABLES
    call,             \* the invocation: scheme, operation and its arguments
    result,           \* "pending" before the call ran, then its Result<bool, LockAlgorithmError>
    signing_message,  \* the H256 handed to secp256k1::Message::from_slice, NoMessage if none was
    rlp_data,         \* Option<Bytes> of try_assemble_polyjuice_args: <<>> is None, <<b>> is Some(b)
    state,            \* the StateImpl
    overlays,         \* the OverlayStates made from it: <<>> for none, <<overlay>> for one
    last,             \* the last operation on the state engine: its name, arguments and result
    log,              \* what was last written to each key and inserted for each hash
    steps,            \* the number of writes made so far
    manage,           \* the AccountLockManage: its <<code hash, lock algorithm>> entries
    conversion        \* a GlobalState under conversion: the value given, the value held now

lock_vars == <<call, result, signing_message, rlp_data, manage, conversion>>

engine_vars == <<state, overlays, last, log, steps>>

vars == <<call, result, signing_message, rlp_data, state, overlays, last, log, steps, manage,
          conversion>>

-----------------------------------------------------------------------------
(* Bounds of the model *)

NumKeys == 2
NumRollups == 2
NumValues == 2
TreeHeight == 2
MaxOps == 3

-----------------------------------------------------------------------------
(* Byte strings and fixed-width integers *)

Byte == 0..255

Zeros(n) == [i \in 1..n |-> 0]

Reverse(s) == [i \in 1..Len(s) |-> s[Len(s) + 1 - i]]

\* Rust's s[a..b]
Slice(s, a, b) == SubSeq(s, a + 1, b)

\* the u32 of a small number, big-endian
U32(n) == <<0, 0, n \div 256, n % 256>>

\* uN::from_le_bytes(data), kept big-endian
from_le_bytes(data) == Reverse(data)

\* x.to_le_bytes()
to_le_bytes(x) == Reverse(x)

\* x as u64, for a u32 x
as_u64(x) == Zeros(8 - Len(x)) \o x

\* a u64 shifted left by 32 bits: the top four bytes fall off
shl32(x) == SubSeq(x, 5, 8) \o Zeros(4)

RECURSIVE BitOrNat(_, _)
BitOrNat(a, b) ==
    IF a = 0 THEN b
    ELSE IF b = 0 THEN a
    ELSE (IF a % 2 = 1 \/ b % 2 = 1 THEN 1 ELSE 0) + 2 * BitOrNat(a \div 2, b \div 2)

\* x | y on two integers of the same width
bitor(x, y) == [i \in 1..Len(x) |-> BitOrNat(x[i], y[i])]

RECURSIVE StripZeros(_)
StripZeros(be) ==
    IF be # <<>> /\ Head(be) = 0 THEN StripZeros(Tail(be)) ELSE be

-----------------------------------------------------------------------------
(* RLP, as the rlp crate's RlpStream encodes it *)

\* the minimal big-endian bytes of a length
BeLen(n) == IF n < 256 THEN <<n>> ELSE <<n \div 256, n % 256>>

\* Encoder::encode_value: a byte string
RlpBytes(value) ==
    IF Len(value) = 0 THEN <<128>>
    ELSE IF Len(value) = 1 /\ value[1] < 128 THEN value
    ELSE IF Len(value) <= 55 THEN <<128 + Len(value)>> \o value
    ELSE <<183 + Len(BeLen(Len(value)))>> \o BeLen(Len(value)) \o value

\* an unsigned integer: its big-endian bytes without the leading zero bytes
RlpUint(be) == RlpBytes(StripZeros(be))

\* the list header put in front of the concatenated items
RlpList(payload) ==
    IF Len(payload) <= 55 THEN <<192 + Len(payload)>> \o payload
    ELSE <<247 + Len(BeLen(Len(payload)))>> \o BeLen(Len(payload)) \o payload

RECURSIVE BeNat(_)
BeNat(be) == IF be = <<>> THEN 0 ELSE BeNat(SubSeq(be, 1, Len(be) - 1)) * 256 + be[Len(be)]

\* the byte strings of a concatenation of RLP string items
RECURSIVE RlpDecodeItems(_)
RlpDecodeItems(bytes) ==
    IF bytes = <<>> THEN <<>>
    ELSE LET b == bytes[1] IN
         IF b < 128 THEN <<(<<b>>)>> \o RlpDecodeItems(Tail(bytes))
         ELSE IF b <= 183
              THEN <<SubSeq(bytes, 2, 1 + (b - 128))>>
                     \o RlpDecodeItems(SubSeq(bytes, 2 + (b - 128), Len(bytes)))
              ELSE LET ll == b - 183
                       n  == BeNat(SubSeq(bytes, 2, 1 + ll))
                   IN  <<SubSeq(bytes, 2 + ll, 1 + ll + n)>>
                         \o RlpDecodeItems(SubSeq(bytes, 2 + ll + n, Len(bytes)))

\* the items of an RLP list of strings; the header must span the whole input
RlpDecodeList(bytes) ==
    LET b == bytes[1] IN
    IF b <= 247
    THEN RlpDecodeItems(SubSeq(bytes, 2, 1 + (b - 192)))
    ELSE RlpDecodeItems(SubSeq(bytes, 2 + (b - 247),
                               1 + (b - 247) + BeNat(SubSeq(bytes, 2, 1 + (b - 247)))))

RlpListSpansInput(bytes) ==
    LET b == bytes[1] IN
    /\ b >= 192
    /\ IF b <= 247 THEN Len(bytes) = 1 + (b - 192)
       ELSE Len(bytes) = 1 + (b - 247) + BeNat(SubSeq(bytes, 2, 1 + (b - 247)))

-----------------------------------------------------------------------------
(* Recoverable ECDSA in miniature (the secp256k1 crate).  The group is the *)
(* scalars modulo the prime CurveOrder under addition, generated by 1; the *)
(* x-coordinate of a point P is min(P, CurveOrder - P), shared by P and    *)
(* -P, and its y-coordinate is odd when P lies in the upper half.          *)

CurveOrder == 32749

HalfOrder == (CurveOrder - 1) \div 2

RECURSIVE ModPow(_, _)
ModPow(b, e) ==
    IF e = 0 THEN 1
    ELSE LET h == ModPow(b, e \div 2) IN
         IF e % 2 = 0 THEN (h * h) % CurveOrder
         ELSE (((h * h) % CurveOrder) * b) % CurveOrder

ModInv(a) == ModPow(a % CurveOrder, CurveOrder - 2)

\* the value of 32 big-endian bytes; everything from 2^16 on is only known to overflow
Scalar32(b) ==
    IF SubSeq(b, 1, 30) = Zeros(30) THEN b[31] * 256 + b[32] ELSE 65536

Be32(n) == Zeros(30) \o <<n \div 256, n % 256>>

\* the public key of a private key d: d times the generator
PublicKey(d) == d % CurveOrder

XCoord(P) == IF P <= HalfOrder THEN P ELSE CurveOrder - P

\* RecoveryId::from_i32: Ok for 0..=3
RecoveryId_from_i32(id) == IF id \in 0..3 THEN <<id>> ELSE <<>>

\* RecoverableSignature::from_compact: r and s must be below the group order
from_compact(data, recid) ==
    LET r == Scalar32(Slice(data, 0, 32))
        s == Scalar32(Slice(data, 32, 64))
    IN  IF r >= CurveOrder \/ s >= CurveOrder THEN <<>>
        ELSE <<[r |-> r, s |-> s, recid |-> recid]>>

\* Secp256k1::recover: the key Q = r^-1 (s R - z G), where R is the point with
\* x-coordinate r (r + order for recovery ids 2 and 3, which no point has here)
\* and the parity the recovery id names
recover(msg, sig) ==
    IF sig.r = 0 \/ sig.s = 0 \/ sig.recid >= 2 \/ sig.r > HalfOrder THEN <<>>
    ELSE LET R == IF sig.recid % 2 = 0 THEN sig.r ELSE CurveOrder - sig.r
             z == msg % CurveOrder
             Q == (ModInv(sig.r) * ((sig.s * R + CurveOrder - z) % CurveOrder)) % CurveOrder
         IN  IF Q = 0 THEN <<>> ELSE <<Q>>

\* the signer's side (the test fixtures): the 65-byte signature of digest msg
\* under private key d with nonce k, with s normalised to the lower half
Sign(d, msg, k) ==
    LET R   == k % CurveOrder
        r   == XCoord(R)
        odd == IF R > HalfOrder THEN 1 ELSE 0
        s   == (ModInv(k) * (((msg % CurveOrder) + r * d) % CurveOrder)) % CurveOrder
    IN  IF s > HalfOrder
        THEN Be32(r) \o Be32(CurveOrder - s) \o <<1 - odd>>
        ELSE Be32(r) \o Be32(s) \o <<odd>>

\* blake2b(pubkey.serialize())[..20]
blake160(pubkey) == <<1, pubkey \div 256, pubkey % 256>> \o Zeros(17)

\* Keccak256(pubkey.serialize_uncompressed()[1..])[12..]
keccak160(pubkey) == <<2, pubkey \div 256, pubkey % 256>> \o Zeros(17)

-----------------------------------------------------------------------------
(* The values the calls are made on *)

RECURSIVE SetToSeq(_)
SetToSeq(S) ==
    IF S = {} THEN <<>>
    ELSE LET x == CHOOSE y \in S : TRUE IN <<x>> \o SetToSeq(S \ {x})

IndexOf(list, x) == CHOOSE i \in 1..Len(list) : list[i] = x

Keys == 1..NumKeys

\* a signing nonce with an even and one with an odd nonce point
Nonces == {7, CurveOrder - 11}

\* b"\xFF\xFF\xFFPOLY"
PolyjuiceMagic == <<255, 255, 255, 80, 79, 76, 89>>

\* the test fixtures: gas_limit 21000 (u64), gas_price 20000000000 and value 3000000 (u128)
GasLimit == Zeros(6) \o <<82, 8>>
GasPrice == Zeros(11) \o <<4, 168, 23, 200, 0>>
Value == Zeros(13) \o <<45, 198, 192>>

\* the polyjuice args of the tests, declaring a payload of declared_len bytes
PolyjuiceArgs(flag, declared_len, payload) ==
    PolyjuiceMagic \o <<flag>> \o to_le_bytes(GasLimit) \o to_le_bytes(GasPrice)
        \o to_le_bytes(Value) \o to_le_bytes(U32(declared_len)) \o payload

\* b"POLYJUICEcontract"
ContractPayload == <<80, 79, 76, 89, 74, 85, 73, 67, 69, 99, 111, 110, 116, 114, 97, 99, 116>>

TxArgs ==
    { <<>>,                                        \* test_secp256k1_eth_normal_call
      Zeros(52),                                   \* long enough, no magic
      PolyjuiceArgs(0, 0, <<>>),                   \* test_secp256k1_eth_polyjuice_call
      PolyjuiceArgs(0, 17, ContractPayload),       \* a call with a payload
      PolyjuiceArgs(3, 17, ContractPayload),       \* test_secp256k1_eth_polyjuice_create
      SubSeq(PolyjuiceArgs(0, 0, <<>>), 1, 51),    \* magic, one byte short
      PolyjuiceArgs(0, 3, <<80, 79>>),             \* magic, payload shorter than declared
      PolyjuiceArgs(0, 1, <<80, 79>>) }            \* magic, payload longer than declared

FromIds == {U32(0), U32(1)}

RawTxs ==
    { [from_id |-> f, to_id |-> U32(1234), nonce |-> U32(9), args |-> a] :
        f \in FromIds, a \in TxArgs }

\* the per-chain ids: the rollup's and the polyjuice receiver's
ChainIds == {U32(0), U32(23), <<255, 255, 255, 255>>}

\* an H256 is the number of its preimage; the rollup script hashes come first, 0 the default
RollupHashes == 0..(NumRollups - 1)

Contexts ==
    { [rollup_script_hash |-> h, rollup_config |-> [compatible_chain_id |-> c]] :
        h \in RollupHashes, c \in ChainIds }

NewScript(args) == [code_hash |-> 0, hash_type |-> 0, args |-> args]

IdentityHashes == {blake160(PublicKey(d)) : d \in Keys} \cup {keccak160(PublicKey(d)) : d \in Keys}

\* lock args: 32 bytes of rollup type hash, then the 20-byte identity; also one byte
\* short and one byte long
LockArgsSet ==
    {Zeros(32) \o h : h \in IdentityHashes}
        \cup {SubSeq(Zeros(32) \o h, 1, 51) : h \in {blake160(PublicKey(1)), keccak160(PublicKey(1))}}
        \cup {Zeros(32) \o h \o <<0>> : h \in {blake160(PublicKey(1)), keccak160(PublicKey(1))}}

SenderScripts == {NewScript(a) : a \in LockArgsSet}

\* receiver script args: 32 bytes of rollup type hash, then the little-endian chain id;
\* also args too short to hold one
ReceiverScripts ==
    {NewScript(Zeros(32) \o to_le_bytes(c)) : c \in ChainIds \ {U32(0)}}
        \cup {NewScript(Zeros(32))}

ScriptList == SetToSeq(SenderScripts \cup ReceiverScripts)

RawTxList == SetToSeq(RawTxs)

-----------------------------------------------------------------------------
(* H256 and the hashes of gw-types *)

\* H256::as_slice: the number of the preimage in the leading bytes
as_slice(h) == <<h \div 256, h % 256>> \o Zeros(30)

H256_from(bytes) == bytes[1] * 256 + bytes[2]

ScriptBase == NumRollups

\* Script::hash(): blake2b of the serialised script
ScriptHash(script) == ScriptBase + IndexOf(ScriptList, script) - 1

CanonBase == ScriptBase + Len(ScriptList)

\* RawL2Transaction::calc_message: blake2b over the rollup type hash, the sender and
\* receiver script hashes and the serialised raw transaction
calc_message(raw, rollup_type_hash, sender_script_hash, receiver_script_hash) ==
    CanonBase
      + ((rollup_type_hash * Len(ScriptList) + (sender_script_hash - ScriptBase)) * Len(ScriptList)
            + (receiver_script_hash - ScriptBase)) * Len(RawTxList)
      + IndexOf(RawTxList, raw) - 1

CanonEnd == CanonBase + NumRollups * Len(ScriptList) * Len(ScriptList) * Len(RawTxList)

-----------------------------------------------------------------------------
(* try_assemble_polyjuice_args and Keccak256 *)

\* a u32 as usize
as_usize(x) == BeNat(x)

\* the shift done in 32 bits: every bit of the rollup's id is shifted out
ChainIdShiftedIn32Bits(rollup_chain_id) == Zeros(8)

\* the chain id is computed in 64 bits, the rollup's id in the high half
ChainIdShifted(rollup_chain_id) == shl32(as_u64(rollup_chain_id))

\* the nine appends between begin_unbounded_list and finalize_unbounded_list
SwappedGasStream(nonce, gas_price, gas_limit, to, value, payload, chain_id) ==
    RlpList(RlpUint(nonce) \o RlpUint(gas_limit) \o RlpUint(gas_price)
              \o RlpBytes(to) \o RlpUint(value) \o RlpBytes(payload)
              \o RlpUint(chain_id) \o RlpUint(<<0>>) \o RlpUint(<<0>>))

PolyjuiceStream(nonce, gas_price, gas_limit, to, value, payload, chain_id) ==
    RlpList(RlpUint(nonce) \o RlpUint(gas_price) \o RlpUint(gas_limit)
              \o RlpBytes(to) \o RlpUint(value) \o RlpBytes(payload)
              \o RlpUint(chain_id) \o RlpUint(<<0>>) \o RlpUint(<<0>>))

\* a declared payload length that only has to fit into the args
PayloadTooShort(args, payload_length) == Len(args) < 52 + payload_length

\* args.len() != 52 + payload_length
PayloadLengthMismatch(args, payload_length) == Len(args) # 52 + payload_length

try_assemble_polyjuice_args(rollup_chain_id, raw_tx, receiver_script) ==
    LET args == raw_tx.args IN
    IF Len(args) < 52 THEN <<>>
    ELSE IF Slice(args, 0, 7) # PolyjuiceMagic THEN <<>>
    ELSE
      LET nonce     == raw_tx.nonce
          gas_price == from_le_bytes(Slice(args, 16, 32))
          gas_limit == from_le_bytes(Slice(args, 8, 16))
          create    == args[8] = 3          \* args[7]: 3 for EVMC_CREATE
      IN
      IF ~create /\ Len(receiver_script.args) < 36 THEN <<>>
      ELSE
        LET polyjuice_chain_id ==
                IF create THEN raw_tx.to_id
                ELSE from_le_bytes(Slice(receiver_script.args, 32, 36))
            to ==
                IF create THEN <<>>
                ELSE Slice(as_slice(ScriptHash(receiver_script)), 0, 16)
                        \o to_le_bytes(raw_tx.to_id)
            value          == from_le_bytes(Slice(args, 32, 48))
            payload_length == as_usize(from_le_bytes(Slice(args, 48, 52)))
        IN
        IF PayloadLengthMismatch(args, payload_length) THEN <<>>
        ELSE
          LET payload  == Slice(args, 52, 52 + payload_length)
              chain_id == bitor(ChainIdShifted(rollup_chain_id), as_u64(polyjuice_chain_id))
          IN  << PolyjuiceStream(nonce, gas_price, gas_limit, to, value, payload, chain_id) >>

\* "\x19Ethereum Signed Message:\n32"
EthPrefix ==
    <<25, 69, 116, 104, 101, 114, 101, 117, 109, 32, 83, 105, 103, 110, 101, 100, 32,
      77, 101, 115, 115, 97, 103, 101, 58, 10, 51, 50>>

\* "\x19TRON Signed Message:\n32"
TronPrefix ==
    <<25, 84, 82, 79, 78, 32, 83, 105, 103, 110, 101, 100, 32,
      77, 101, 115, 115, 97, 103, 101, 58, 10, 51, 50>>

\* every encoding the assembly can produce on the values above
AssembledList ==
    SetToSeq({ x[1] : x \in { try_assemble_polyjuice_args(c, t, r) :
                                c \in ChainIds, t \in RawTxs, r \in ReceiverScripts } \ {<<>>} })

\* Keccak256 of a byte string: the personal messages are numbered after the
\* canonical messages, the assembled encodings after those
Keccak256(data) ==
    IF Len(data) = 60 /\ SubSeq(data, 1, 28) = EthPrefix
    THEN CanonEnd + H256_from(SubSeq(data, 29, 60))
    ELSE IF Len(data) = 56 /\ SubSeq(data, 1, 24) = TronPrefix
    THEN 2 * CanonEnd + H256_from(SubSeq(data, 25, 56))
    ELSE 3 * CanonEnd + IndexOf(AssembledList, data) - 1

-----------------------------------------------------------------------------
(* The lock algorithms.  A result is "Ok(true)", "Ok(false)" or the error. *)

NoMessage == 0 - 1

Outcome(res, msg) == [result |-> res, signing_message |-> msg]

\* a message that leaves the rollup type hash out
calc_message_without_rollup(rollup_type_hash, sender_script, receiver_script, tx) ==
    calc_message(tx.raw, 0, ScriptHash(sender_script), ScriptHash(receiver_script))

calc_godwoken_signing_message(rollup_type_hash, sender_script, receiver_script, tx) ==
    calc_message(tx.raw, rollup_type_hash, ScriptHash(sender_script), ScriptHash(receiver_script))

\* signature[64] taken modulo 4 before RecoveryId::from_i32
Secp256k1_parse_masked(signature) ==
    LET recid == RecoveryId_from_i32(signature[65] % 4)
    IN  IF recid = <<>> THEN <<>> ELSE from_compact(Slice(signature, 0, 64), recid[1])

\* the RecoverableSignature of the 65 bytes, <<>> on InvalidSignature
Secp256k1_parse(signature) ==
    LET recid == RecoveryId_from_i32(signature[65])
    IN  IF recid = <<>> THEN <<>> ELSE from_compact(Slice(signature, 0, 64), recid[1])

\* a comparison that never returns Ok(false)
Secp256k1_always_true(pubkey, expected_pubkey_hash) == "Ok(true)"

Secp256k1_compare(pubkey, expected_pubkey_hash) ==
    IF blake160(pubkey) # expected_pubkey_hash THEN "Ok(false)" ELSE "Ok(true)"

Secp256k1_recover_and_compare(lock_args, signature, message) ==
    LET expected_pubkey_hash == Slice(lock_args, 32, 52)
        sig == Secp256k1_parse(signature)
    IN
    IF sig = <<>> THEN Outcome("InvalidSignature", message)
    ELSE
      LET pubkey == recover(message, sig[1]) IN
      IF pubkey = <<>> THEN Outcome("InvalidSignature", message)
      ELSE Outcome(Secp256k1_compare(pubkey[1], expected_pubkey_hash), message)

Secp256k1_verify_withdrawal_signature(lock_args, signature, message) ==
    IF Len(lock_args) # 52 THEN Outcome("InvalidLockArgs", message)
    ELSE Secp256k1_recover_and_compare(lock_args, signature, message)

Secp256k1_verify_tx(ctx, sender_script, receiver_script, tx) ==
    LET message == calc_godwoken_signing_message(ctx.rollup_script_hash, sender_script,
                                                 receiver_script, tx)
    IN  Secp256k1_verify_withdrawal_signature(sender_script.args, tx.signature, message)

Secp256k1Eth_parse(signature) ==
    LET recid == RecoveryId_from_i32(signature[65])
    IN  IF recid = <<>> THEN <<>> ELSE from_compact(Slice(signature, 0, 64), recid[1])

\* a mismatch reported as an error
Secp256k1Eth_mismatch_is_error(pubkey, expected_pubkey_hash) ==
    IF keccak160(pubkey) # expected_pubkey_hash THEN "InvalidSignature" ELSE "Ok(true)"

Secp256k1Eth_compare(pubkey, expected_pubkey_hash) ==
    IF keccak160(pubkey) # expected_pubkey_hash THEN "Ok(false)" ELSE "Ok(true)"

Secp256k1Eth_recover_and_compare(lock_args, signature, message) ==
    LET expected_pubkey_hash == Slice(lock_args, 32, 52)
        sig == Secp256k1Eth_parse(signature)
    IN
    IF sig = <<>> THEN Outcome("InvalidSignature", message)
    ELSE
      LET pubkey == recover(message, sig[1]) IN
      IF pubkey = <<>> THEN Outcome("InvalidSignature", message)
      ELSE Outcome(Secp256k1Eth_compare(pubkey[1], expected_pubkey_hash), message)

\* lock args that must start with the all-zero rollup type hash
Secp256k1Eth_verify_alone_checking_rollup(lock_args, signature, message) ==
    IF Len(lock_args) # 52 \/ SubSeq(lock_args, 1, 32) # Zeros(32)
    THEN Outcome("InvalidLockArgs", message)
    ELSE Secp256k1Eth_recover_and_compare(lock_args, signature, message)

Secp256k1Eth_verify_alone(lock_args, signature, message) ==
    IF Len(lock_args) # 52 THEN Outcome("InvalidLockArgs", message)
    ELSE Secp256k1Eth_recover_and_compare(lock_args, signature, message)

Secp256k1Eth_verify_withdrawal_signature(lock_args, signature, message) ==
    LET signing_msg == Keccak256(EthPrefix \o as_slice(message))
    IN  Secp256k1Eth_verify_alone(lock_args, signature, signing_msg)

\* the polyjuice path with the personal-message prefix applied as well
Secp256k1Eth_verify_tx_wrapped(ctx, sender_script, receiver_script, tx) ==
    LET rlp == try_assemble_polyjuice_args(ctx.rollup_config.compatible_chain_id,
                                           tx.raw, receiver_script)
    IN
    IF rlp # <<>>
    THEN [rlp |-> rlp,
          out |-> Secp256k1Eth_verify_alone(
                      sender_script.args, tx.signature,
                      Keccak256(EthPrefix \o as_slice(calc_godwoken_signing_message(
                          ctx.rollup_script_hash, sender_script, receiver_script, tx))))]
    ELSE
      LET message == calc_godwoken_signing_message(ctx.rollup_script_hash, sender_script,
                                                   receiver_script, tx)
      IN  [rlp |-> rlp,
           out |-> Secp256k1Eth_verify_withdrawal_signature(sender_script.args,
                                                            tx.signature, message)]

\* a verification that assembles the Ethereum transaction and then checks the
\* signature against the canonical message all the same
Secp256k1Eth_verify_tx_on_canonical(ctx, sender_script, receiver_script, tx) ==
    LET rlp == try_assemble_polyjuice_args(ctx.rollup_config.compatible_chain_id,
                                           tx.raw, receiver_script)
        message == calc_godwoken_signing_message(ctx.rollup_script_hash, sender_script,
                                                 receiver_script, tx)
    IN  [rlp |-> rlp,
         out |-> Secp256k1Eth_verify_withdrawal_signature(sender_script.args,
                                                          tx.signature, message)]

\* the Option of the assembly, then the outcome
Secp256k1Eth_verify_tx(ctx, sender_script, receiver_script, tx) ==
    LET rlp == try_assemble_polyjuice_args(ctx.rollup_config.compatible_chain_id,
                                           tx.raw, receiver_script)
    IN
    IF rlp # <<>>
    THEN [rlp |-> rlp,
          out |-> Secp256k1Eth_verify_alone(sender_script.args, tx.signature, Keccak256(rlp[1]))]
    ELSE
      LET message == calc_godwoken_signing_message(ctx.rollup_script_hash, sender_script,
                                                   receiver_script, tx)
      IN  [rlp |-> rlp,
           out |-> Secp256k1Eth_verify_withdrawal_signature(sender_script.args,
                                                            tx.signature, message)]

\* Ethereum's convention, v - 27
TronRecParamMinus27(byte) == byte - 27

\* the recovery id of a Tron signature's last byte
TronRecParam(byte) == IF byte = 28 THEN 1 ELSE 0

Secp256k1Tron_parse(signature) ==
    LET recid == RecoveryId_from_i32(TronRecParam(signature[65]))
    IN  IF recid = <<>> THEN <<>> ELSE from_compact(Slice(signature, 0, 64), recid[1])

Secp256k1Tron_compare(pubkey, expected_pubkey_hash) ==
    IF keccak160(pubkey) # expected_pubkey_hash THEN "Ok(false)" ELSE "Ok(true)"

Secp256k1Tron_recover_and_compare(lock_args, signature, message) ==
    LET signing_msg == Keccak256(TronPrefix \o as_slice(message))
        expected_pubkey_hash == Slice(lock_args, 32, 52)
        sig == Secp256k1Tron_parse(signature)
    IN
    IF sig = <<>> THEN Outcome("InvalidSignature", signing_msg)
    ELSE
      LET pubkey == recover(signing_msg, sig[1]) IN
      IF pubkey = <<>> THEN Outcome("InvalidSignature", signing_msg)
      ELSE Outcome(Secp256k1Tron_compare(pubkey[1], expected_pubkey_hash), signing_msg)

\* a length check that only rejects lock args that are too short
Secp256k1Tron_verify_rejects_short(lock_args, signature, message) ==
    IF Len(lock_args) < 52 THEN Outcome("InvalidLockArgs", NoMessage)
    ELSE Secp256k1Tron_recover_and_compare(lock_args, signature, message)

Secp256k1Tron_verify_withdrawal_signature(lock_args, signature, message) ==
    IF Len(lock_args) # 52 THEN Outcome("InvalidLockArgs", NoMessage)
    ELSE Secp256k1Tron_recover_and_compare(lock_args, signature, message)

\* a message computed with the sender and the receiver script in each other's place
Secp256k1Tron_verify_tx_swapped(ctx, sender_script, receiver_script, tx) ==
    LET message == calc_godwoken_signing_message(ctx.rollup_script_hash, receiver_script,
                                                 sender_script, tx)
    IN  Secp256k1Tron_verify_withdrawal_signature(sender_script.args, tx.signature, message)

Secp256k1Tron_verify_tx(ctx, sender_script, receiver_script, tx) ==
    LET message == calc_godwoken_signing_message(ctx.rollup_script_hash, sender_script,
                                                 receiver_script, tx)
    IN  Secp256k1Tron_verify_withdrawal_signature(sender_script.args, tx.signature, message)

-----------------------------------------------------------------------------
(* The calls: signatures made by a signer, then possibly changed in one byte *)

Schemes == {"Secp256k1", "Secp256k1Eth", "Secp256k1Tron"}

PersonalEth(m) == Keccak256(EthPrefix \o as_slice(m))

PersonalTron(m) == Keccak256(TronPrefix \o as_slice(m))

\* the digest of the Ethereum transaction a polyjuice wallet signs, if there is one
AssembledDigests(ctx, raw, receiver_script) ==
    { Keccak256(x[1]) :
        x \in {try_assemble_polyjuice_args(ctx.rollup_config.compatible_chain_id,
                                           raw, receiver_script)} \ {<<>>} }

\* what a signer following any of the conventions would sign for a message
SignedDigests(m) == {m, PersonalEth(m), PersonalTron(m)}

\* the digest the scheme's own convention signs, and one of another convention
SchemeDigests(scheme, m) ==
    IF scheme = "Secp256k1" THEN {m, PersonalEth(m)}
    ELSE IF scheme = "Secp256k1Eth" THEN {PersonalEth(m), m}
    ELSE {PersonalTron(m), m}

\* one byte of the signature changed: <<position, amount added modulo 256>>
Mutations == {<<p, a>> : p \in {1, 31, 32, 63, 64, 65}, a \in {1, 27, 100, 255}}

Mutate(signature, m) ==
    IF m = <<>> THEN signature
    ELSE [signature EXCEPT ![m[1]] = (signature[m[1]] + m[2]) % 256]

\* the all-zero H256 of the tests and a canonical message
WithdrawalMessages == {0, CanonBase}

DefaultContext == [rollup_script_hash |-> 0, rollup_config |-> [compatible_chain_id |-> U32(0)]]

DefaultReceiver == NewScript(Zeros(32) \o to_le_bytes(U32(23)))

VerifyTxCall(scheme, ctx, sender_script, receiver_script, raw, signature) ==
    [scheme |-> scheme, op |-> "verify_tx", ctx |-> ctx, sender_script |-> sender_script,
     receiver_script |-> receiver_script, tx |-> [raw |-> raw, signature |-> signature]]

WithdrawalCall(scheme, lock_args, signature, message) ==
    [scheme |-> scheme, op |-> "verify_withdrawal_signature", lock_args |-> lock_args,
     signature |-> signature, message |-> message]

\* the transactions the many signatures are made on
FewRawTxs ==
    { t \in RawTxs : t.from_id = U32(0) /\ t.args \in {<<>>, PolyjuiceArgs(0, 0, <<>>)} }

\* many signatures on few messages
IsSignatureCall(c) ==
    \E scheme \in Schemes, lock_args \in LockArgsSet, d \in Keys, k \in Nonces,
       mut \in Mutations \cup {<<>>} :
        \/ \E message \in WithdrawalMessages :
             \E z \in SchemeDigests(scheme, message) :
                c = WithdrawalCall(scheme, lock_args, Mutate(Sign(d, z, k), mut), message)
        \/ \E raw \in FewRawTxs :
             \E z \in SchemeDigests(scheme,
                         calc_message(raw, 0, ScriptHash(NewScript(lock_args)),
                                      ScriptHash(DefaultReceiver)))
                      \cup AssembledDigests(DefaultContext, raw, DefaultReceiver) :
                c = VerifyTxCall(scheme, DefaultContext, NewScript(lock_args), DefaultReceiver,
                                 raw, Mutate(Sign(d, z, k), mut))

\* many transactions, each signed by key 1 under every convention
IsTransactionCall(c) ==
    \E scheme \in Schemes, ctx \in Contexts, raw \in RawTxs, receiver \in ReceiverScripts,
       sender \in { NewScript(Zeros(32) \o blake160(PublicKey(1))),
                    NewScript(Zeros(32) \o keccak160(PublicKey(1))) } :
        \E z \in SignedDigests(calc_message(raw, ctx.rollup_script_hash, ScriptHash(sender),
                                            ScriptHash(receiver)))
                   \cup AssembledDigests(ctx, raw, receiver) :
            c = VerifyTxCall(scheme, ctx, sender, receiver, raw, Sign(1, z, 7))

-----------------------------------------------------------------------------
(* The sparse Merkle tree of gw_common::smt, in miniature: keys of          *)
(* TreeHeight bits instead of 256.  A node hash is kept as the              *)
(* serialisation of its preimage, a sequence of numbers, the zero hash as   *)
(* the empty sequence; a value is a number, 0 the zero value.               *)

RECURSIVE Pow2(_)
Pow2(n) == IF n = 0 THEN 1 ELSE 2 * Pow2(n - 1)

SmtKeys == 0..(Pow2(TreeHeight) - 1)

SmtValues == 0..NumValues

\* H256::zero()
H256_zero == <<>>

\* hash_leaf: the zero value hashes to the zero hash, so that an absent leaf and a
\* leaf holding zero are the same leaf
hash_leaf(key, value) == IF value = 0 THEN H256_zero ELSE <<key, value>>

\* merge: the hash of two children, zero for two zero children
merge(lhs, rhs) ==
    IF lhs = H256_zero /\ rhs = H256_zero THEN H256_zero
    ELSE <<Len(lhs)>> \o lhs \o rhs

\* the store of a tree: the branch nodes by their hash, the leaves by their key
EmptyStore == [branches |-> {}, leaves |-> {}]

\* SMT::new
SMT_new(root, store) == [root |-> root, store |-> store]

\* Store::get_branch
get_branch(store, node) == CHOOSE b \in store.branches : b[1] = node

\* Store::get_leaf: <<>> for None
get_leaf(store, key) ==
    IF \E l \in store.leaves : l[1] = key
    THEN <<(CHOOSE l \in store.leaves : l[1] = key)[2]>>
    ELSE <<>>

\* the node at a height that covers the keys index * 2^height .. , found from the root
RECURSIVE NodeAt(_, _, _)
NodeAt(tree, height, index) ==
    IF height = TreeHeight THEN tree.root
    ELSE LET parent == NodeAt(tree, height + 1, index \div 2) IN
         IF parent = H256_zero THEN H256_zero
         ELSE IF index % 2 = 0 THEN get_branch(tree.store, parent)[2]
         ELSE get_branch(tree.store, parent)[3]

\* the index at a height of the node beside the one a key lies under
SiblingIndex(key, height) ==
    LET i == key \div Pow2(height) IN IF i % 2 = 0 THEN i + 1 ELSE i - 1

\* SMT::get
SMT_get(tree, key) ==
    IF tree.root = H256_zero THEN 0
    ELSE LET leaf == get_leaf(tree.store, key) IN
         IF leaf = <<>> THEN 0 ELSE leaf[1]

\* the nodes from the new leaf up to the new root
RECURSIVE UpdatedNode(_, _, _, _)
UpdatedNode(tree, key, value, height) ==
    IF height = 0 THEN hash_leaf(key, value)
    ELSE LET node    == UpdatedNode(tree, key, value, height - 1)
             sibling == NodeAt(tree, height - 1, SiblingIndex(key, height - 1))
         IN  IF (key \div Pow2(height - 1)) % 2 = 0
             THEN merge(node, sibling) ELSE merge(sibling, node)

\* the branch written for the new node at a height: <<parent, left, right>>
UpdatedBranch(tree, key, value, height) ==
    LET node    == UpdatedNode(tree, key, value, height - 1)
        sibling == NodeAt(tree, height - 1, SiblingIndex(key, height - 1))
    IN  IF (key \div Pow2(height - 1)) % 2 = 0
        THEN <<merge(node, sibling), node, sibling>>
        ELSE <<merge(sibling, node), sibling, node>>

\* the leaves after a write: the leaf of a zero value is removed
UpdatedLeaves(leaves, key, value) ==
    {l \in leaves : l[1] # key} \cup (IF value = 0 THEN {} ELSE {<<key, value>>})

\* SMT::update: the old branches on the key's path are removed, the new leaf and the
\* new branches up to the root are stored
SMT_update(tree, key, value) ==
    LET old == {NodeAt(tree, h, key \div Pow2(h)) : h \in 1..TreeHeight}
        new == {UpdatedBranch(tree, key, value, h) : h \in 1..TreeHeight}
    IN  [root  |-> UpdatedNode(tree, key, value, TreeHeight),
         store |-> [branches |-> {b \in tree.store.branches : b[1] \notin old}
                                    \cup {b \in new : b[1] # H256_zero},
                    leaves   |-> UpdatedLeaves(tree.store.leaves, key, value)]]

\* the set of the keys of a Vec of keys or of leaves
KeysOf(leaves) == {leaves[n][1] : n \in 1..Len(leaves)}

\* a node lies on the path of one of the keys
OnPath(keys, height, index) == \E k \in keys : k \div Pow2(height) = index

\* SMT::merkle_proof: the siblings along the paths of the keys that the keys' own
\* leaves do not give, each with its place; EmptyKeys for no key
SMT_merkle_proof(tree, keys) ==
    IF keys = {} THEN [err |-> "EmptyKeys"]
    ELSE [ok |-> { <<h, i, NodeAt(tree, h, i)>> :
                     <<h, i>> \in { p \in (0..(TreeHeight - 1)) \X SmtKeys :
                                      /\ p[2] < Pow2(TreeHeight - p[1])
                                      /\ ~OnPath(keys, p[1], p[2])
                                      /\ OnPath(keys, p[1] + 1, p[2] \div 2) } }]

\* MerkleProof::compile: the proof as a program for the leaves; the values of the
\* leaves are not part of it and are compared with nothing
compile(proof, keys, leaves) ==
    IF Len(leaves) = 0 THEN [err |-> "EmptyKeys"]
    ELSE IF Len(leaves) # Cardinality(keys) THEN [err |-> "IncorrectNumberOfLeaves"]
    ELSE [ok |-> proof]

\* the value a Vec of leaves holds for a key
LeafValue(leaves, key) == leaves[CHOOSE n \in 1..Len(leaves) : leaves[n][1] = key][2]

\* the node a compiled proof gives for leaves at a place; <<0>>, which is no hash,
\* where the proof lacks the node
RECURSIVE ComputedNode(_, _, _, _)
ComputedNode(compiled, leaves, height, index) ==
    IF OnPath(KeysOf(leaves), height, index)
    THEN IF height = 0
         THEN hash_leaf(index, LeafValue(leaves, index))
         ELSE merge(ComputedNode(compiled, leaves, height - 1, 2 * index),
                    ComputedNode(compiled, leaves, height - 1, 2 * index + 1))
    ELSE IF \E e \in compiled : e[1] = height /\ e[2] = index
         THEN (CHOOSE e \in compiled : e[1] = height /\ e[2] = index)[3]
         ELSE <<0>>

\* CompiledMerkleProof::verify
verify(compiled, root, leaves) ==
    /\ Len(leaves) > 0
    /\ ComputedNode(compiled, leaves, TreeHeight, 0) = root

-----------------------------------------------------------------------------
(* StateImpl of crates/chain/src/state_impl/state_impl.rs.  A Result is    *)
(* <<"Ok", value>> or <<"Err", error>>, an Option <<>> or <<value>>, a     *)
(* HashMap the set of its <<key, value>> entries.                          *)

Ok(value) == <<"Ok", value>>

Err(error) == <<"Err", error>>

\* HashMap::insert
HashMap_insert(map, key, value) == {e \in map : e[1] # key} \cup {<<key, value>>}

\* HashMap::get(..).cloned()
HashMap_get(map, key) ==
    IF \E e \in map : e[1] = key THEN <<(CHOOSE e \in map : e[1] = key)[2]>> ELSE <<>>

\* StateImpl::default
StateImpl_default ==
    [tree          |-> SMT_new(H256_zero, EmptyStore),
     account_count |-> 0,
     block_tree    |-> SMT_new(H256_zero, EmptyStore),
     block_count   |-> 0,
     scripts       |-> {},
     codes         |-> {}]

get_raw(self, key) == Ok(SMT_get(self.tree, key))

\* a write that lands on the key beside the one given
update_raw_beside(self, key, value) ==
    [self EXCEPT !.tree = SMT_update(@, SiblingIndex(key, 0), value)]

\* a write that takes the zero value for no write at all
update_raw_ignoring_zero(self, key, value) ==
    IF value = 0 THEN self ELSE [self EXCEPT !.tree = SMT_update(@, key, value)]

update_raw(self, key, value) == [self EXCEPT !.tree = SMT_update(@, key, value)]

get_account_count(self) == Ok(self.account_count)

set_account_count(self, count) == [self EXCEPT !.account_count = count]

calculate_root(self) == Ok(self.tree.root)

\* a proof made from the block tree
merkle_proof_of_block_tree(self, leaves) ==
    LET keys  == KeysOf(leaves)
        proof == SMT_merkle_proof(self.block_tree, keys)
    IN  IF "err" \in DOMAIN proof THEN Err(proof.err)
        ELSE LET compiled == compile(proof.ok, keys, leaves) IN
             IF "err" \in DOMAIN compiled THEN Err(compiled.err)
             ELSE Ok(compiled.ok)

merkle_proof(self, leaves) ==
    LET keys  == KeysOf(leaves)
        proof == SMT_merkle_proof(self.tree, keys)
    IN  IF "err" \in DOMAIN proof THEN Err(proof.err)
        ELSE LET compiled == compile(proof.ok, keys, leaves) IN
             IF "err" \in DOMAIN compiled THEN Err(compiled.err)
             ELSE Ok(compiled.ok)

\* RawL2Block::compute_smt_key: the key of a block number
compute_smt_key(number) == number % Pow2(TreeHeight)

\* RawL2Block::smt_key
smt_key(raw) == compute_smt_key(raw.number)

\* RawL2Block::hash: the hash of a raw block (its number and the rest of it), never
\* the zero hash
RawL2Block_hash(raw) == 1 + raw.number * 2 + raw.rest

\* a push that counts the block
push_block_counted(self, block) ==
    [self EXCEPT !.block_tree = SMT_update(@, smt_key(block.raw), RawL2Block_hash(block.raw)),
                 !.block_count = @ + 1]

\* a block stored under its hash
push_block_by_hash(self, block) ==
    [self EXCEPT !.block_tree =
        SMT_update(@, RawL2Block_hash(block.raw) % Pow2(TreeHeight), RawL2Block_hash(block.raw))]

push_block(self, block) ==
    LET raw        == block.raw
        block_hash == RawL2Block_hash(raw)
        key        == smt_key(raw)
    IN  [self EXCEPT !.block_tree = SMT_update(@, key, block_hash)]

\* a proof made from the account tree
block_merkle_proof_of_account_tree(self, number) ==
    LET key   == compute_smt_key(number)
        value == SMT_get(self.block_tree, key)
        proof == SMT_merkle_proof(self.tree, {key})
    IN  IF "err" \in DOMAIN proof THEN Err(proof.err)
        ELSE LET compiled == compile(proof.ok, {key}, <<(<<key, value>>)>>) IN
             IF "err" \in DOMAIN compiled THEN Err(compiled.err)
             ELSE Ok(compiled.ok)

block_merkle_proof(self, number) ==
    LET key   == compute_smt_key(number)
        value == SMT_get(self.block_tree, key)
        proof == SMT_merkle_proof(self.block_tree, {key})
    IN  IF "err" \in DOMAIN proof THEN Err(proof.err)
        ELSE LET compiled == compile(proof.ok, {key}, <<(<<key, value>>)>>) IN
             IF "err" \in DOMAIN compiled THEN Err(compiled.err)
             ELSE Ok(compiled.ok)

\* an insert that keeps the entry a hash already has
insert_script_if_absent(self, script_hash, script) ==
    IF HashMap_get(self.scripts, script_hash) # <<>> THEN self
    ELSE [self EXCEPT !.scripts = HashMap_insert(@, script_hash, script)]

insert_script(self, script_hash, script) ==
    [self EXCEPT !.scripts = HashMap_insert(@, script_hash, script)]

\* an insert that also accounts for the code in the tree
insert_code_into_tree(self, code_hash, code) ==
    [self EXCEPT !.codes = HashMap_insert(@, code_hash, code),
                 !.tree = SMT_update(@, code_hash % Pow2(TreeHeight), Len(code))]

insert_code(self, code_hash, code) ==
    [self EXCEPT !.codes = HashMap_insert(@, code_hash, code)]

get_script(self, script_hash) == HashMap_get(self.scripts, script_hash)

get_code(self, code_hash) == HashMap_get(self.codes, code_hash)

-----------------------------------------------------------------------------
(* OverlayState: the snapshot new_overlay hands over, and a private buffer  *)
(* of pending writes.  The world is the StateImpl and its overlays; an      *)
(* overlay is <<>> while it does not exist.  The buffer is a HashMap.        *)

\* OverlayStore::new: the wrapped store, nothing written
OverlayStore_new(store) == [store |-> store, buffer |-> {}]

\* OverlayState::new
OverlayState_new(root, store, account_count, scripts, codes) ==
    [tree          |-> SMT_new(root, store),
     account_count |-> account_count,
     scripts       |-> scripts,
     codes         |-> codes]

\* an overlay that starts with an empty code store
new_overlay_without_codes(self) ==
    LET root          == self.tree.root
        account_count == get_account_count(self)[2]
        store         == OverlayStore_new(self.tree.store)
    IN  Ok(OverlayState_new(root, store, account_count, {}, {}))

new_overlay(self) ==
    LET root          == self.tree.root
        account_count == get_account_count(self)[2]
        store         == OverlayStore_new(self.tree.store)
    IN  Ok(OverlayState_new(root, store, account_count, self.scripts, self.codes))

\* a read: the buffer first, then the snapshot
Overlay_get_raw(world, i, key) ==
    LET overlay == world.overlays[i][1]
        pending == HashMap_get(overlay.tree.store.buffer, key)
    IN  IF pending # <<>> THEN Ok(pending[1])
        ELSE Ok(SMT_get(SMT_new(overlay.tree.root, overlay.tree.store.store), key))

\* a write that goes through to the state the overlay was made from
Overlay_update_raw_through(world, i, key, value) ==
    [world EXCEPT !.overlays[i][1].tree.store.buffer = HashMap_insert(@, key, value),
                  !.state = update_raw(@, key, value)]

\* a write: into the buffer only
Overlay_update_raw(world, i, key, value) ==
    [world EXCEPT !.overlays[i][1].tree.store.buffer = HashMap_insert(@, key, value)]

Overlay_get_account_count(world, i) == Ok(world.overlays[i][1].account_count)

Overlay_set_account_count(world, i, count) ==
    [world EXCEPT !.overlays[i][1].account_count = count]

\* an insert every overlay sees
Overlay_insert_script_shared(world, i, script_hash, script) ==
    [world EXCEPT !.overlays =
        [j \in DOMAIN @ |->
            IF @[j] = <<>> THEN <<>>
            ELSE <<[@[j][1] EXCEPT !.scripts = HashMap_insert(@, script_hash, script)]>>]]

Overlay_insert_script(world, i, script_hash, script) ==
    [world EXCEPT !.overlays[i][1].scripts = HashMap_insert(@, script_hash, script)]

Overlay_insert_code(world, i, code_hash, code) ==
    [world EXCEPT !.overlays[i][1].codes = HashMap_insert(@, code_hash, code)]

Overlay_get_script(world, i, script_hash) ==
    HashMap_get(world.overlays[i][1].scripts, script_hash)

Overlay_get_code(world, i, code_hash) ==
    HashMap_get(world.overlays[i][1].codes, code_hash)

\* no call of a lock algorithm
NoCall == [scheme |-> "none", op |-> "none"]

\* no GlobalState is under conversion
NoConversion == [form |-> "none", given |-> <<>>, held |-> <<>>, trips |-> 0]

\* no operation on the state engine yet
NoOperation == [op |-> "none", args |-> <<>>, ret |-> <<>>]

\* nothing written, nothing inserted, no block pushed: -1 for a key never written, 0
\* for a number no block was pushed with
EmptyLog ==
    [written |-> [k \in {0, 1, 3} |-> 0 - 1],
     scripts |-> [h \in {1, 2} |-> <<>>],
     codes   |-> [h \in {1, 2} |-> <<>>],
     blocks  |-> [n \in {0, 1} |-> 0]]

\* two overlays at most are made of a StateImpl; none is in use
NoOverlays == [i \in {1, 2} |-> <<>>]

\* the state engine as StateImpl::default leaves it
EngineIdle ==
    /\ state = StateImpl_default
    /\ overlays = NoOverlays
    /\ last = NoOperation
    /\ log = EmptyLog
    /\ steps = 0

-----------------------------------------------------------------------------
(* The state machine: a call is chosen, then the scheme runs on it *)

Init ==
    /\ IsSignatureCall(call) \/ IsTransactionCall(call)
    /\ result = "pending"
    /\ signing_message = NoMessage
    /\ rlp_data = <<>>
    /\ manage = {}
    /\ conversion = NoConversion
    /\ EngineIdle

Return(out) ==
    /\ result' = out.result
    /\ signing_message' = out.signing_message
    /\ UNCHANGED <<call, manage, conversion>>
    /\ UNCHANGED engine_vars

Secp256k1VerifyTx ==
    /\ result = "pending"
    /\ call.scheme = "Secp256k1" /\ call.op = "verify_tx"
    /\ Return(Secp256k1_verify_tx(call.ctx, call.sender_script, call.receiver_script, call.tx))
    /\ UNCHANGED rlp_data

Secp256k1VerifyWithdrawalSignature ==
    /\ result = "pending"
    /\ call.scheme = "Secp256k1" /\ call.op = "verify_withdrawal_signature"
    /\ Return(Secp256k1_verify_withdrawal_signature(call.lock_args, call.signature,
                                                    call.message))
    /\ UNCHANGED rlp_data

Secp256k1EthVerifyTx ==
    /\ result = "pending"
    /\ call.scheme = "Secp256k1Eth" /\ call.op = "verify_tx"
    /\ LET r == Secp256k1Eth_verify_tx(call.ctx, call.sender_script, call.receiver_script,
                                       call.tx)
       IN  /\ Return(r.out)
           /\ rlp_data' = r.rlp

Secp256k1EthVerifyWithdrawalSignature ==
    /\ result = "pending"
    /\ call.scheme = "Secp256k1Eth" /\ call.op = "verify_withdrawal_signature"
    /\ Return(Secp256k1Eth_verify_withdrawal_signature(call.lock_args, call.signature,
                                                       call.message))
    /\ UNCHANGED rlp_data

Secp256k1TronVerifyTx ==
    /\ result = "pending"
    /\ call.scheme = "Secp256k1Tron" /\ call.op = "verify_tx"
    /\ Return(Secp256k1Tron_verify_tx(call.ctx, call.sender_script, call.receiver_script,
                                      call.tx))
    /\ UNCHANGED rlp_data

Secp256k1TronVerifyWithdrawalSignature ==
    /\ result = "pending"
    /\ call.scheme = "Secp256k1Tron" /\ call.op = "verify_withdrawal_signature"
    /\ Return(Secp256k1Tron_verify_withdrawal_signature(call.lock_args, call.signature,
                                                        call.message))
    /\ UNCHANGED rlp_data

Next ==
    \/ Secp256k1VerifyTx
    \/ Secp256k1VerifyWithdrawalSignature
    \/ Secp256k1EthVerifyTx
    \/ Secp256k1EthVerifyWithdrawalSignature
    \/ Secp256k1TronVerifyTx
    \/ Secp256k1TronVerifyWithdrawalSignature

Spec == Init /\ [][Next]_vars

-----------------------------------------------------------------------------
(* The state engine as a state machine: operations on one StateImpl and on  *)
(* the overlays made from it, MaxOps writes long                            *)

\* the values the operations are called on
\* the keys written and read: two under one branch, one under another
RawKeys == {0, 1, 3}

AccountCounts == {1, 2}

Blocks ==
    { [raw |-> [number |-> 0, rest |-> 0]], [raw |-> [number |-> 0, rest |-> 1]],
      [raw |-> [number |-> 1, rest |-> 0]] }

CodeHashes == {1, 2}

\* the inserts: two scripts under one hash, one of them under another hash too
ScriptInserts == {<<1, NewScript(<<1>>)>>, <<1, NewScript(<<2>>)>>, <<2, NewScript(<<1>>)>>}

CodeInserts == {<<1, <<1>>>>, <<1, <<2>>>>, <<2, <<1>>>>}

\* the keys proofs are asked for: none, one key, two keys under one branch and two
\* keys under different branches
ProofKeys == {<<>>, <<0>>, <<3>>, <<0, 1>>, <<2, 0>>}

\* the leaves a caller claims for keys: the values the tree holds, but for the n-th
\* key (if n is not 0) another value
ClaimedLeaves(self, keys, n) ==
    [m \in 1..Len(keys) |->
        <<keys[m], IF m = n THEN (SMT_get(self.tree, keys[m]) + 1) % (NumValues + 1)
                   ELSE SMT_get(self.tree, keys[m])>>]

OverlayIds == DOMAIN NoOverlays

\* what the overlays write: a key given one value and another, a key given zero
OverlayUpdates == {<<0, 1>>, <<0, 2>>, <<1, 0>>}

\* the keys and the hash the overlays are asked for
OverlayKeys == {0, 1}

OverlayInserts == {e \in ScriptInserts : e[1] = 1}

World == [state |-> state, overlays |-> overlays]

\* the operations that only read
Reads ==
    {"get_raw", "get_account_count", "calculate_root", "merkle_proof", "block_merkle_proof",
     "get_script", "get_code", "overlay.get_raw", "overlay.get_account_count",
     "overlay.get_script", "overlay.get_code"}

\* a read ends the run: it leaves everything but its answer as it was, so that what
\* could follow it follows the write before it as well
Answered == last.op \in Reads

\* a write: it counts as a step.  The StateImpl is written to while no overlay of it
\* is in use: an overlay reads the store of the StateImpl it was made from.
Apply(op, args, new_state) ==
    /\ ~Answered
    /\ steps < MaxOps
    /\ overlays = NoOverlays
    /\ state' = new_state
    /\ last' = [op |-> op, args |-> args, ret |-> Ok(<<>>)]
    /\ steps' = steps + 1
    /\ UNCHANGED lock_vars

\* a read that counts itself in the state
Answer_counted(op, args, ret) ==
    /\ ~Answered
    /\ last' = [op |-> op, args |-> args, ret |-> ret]
    /\ state' = [state EXCEPT !.block_count = @ + 1]
    /\ UNCHANGED <<overlays, log, steps>>
    /\ UNCHANGED lock_vars

\* a read
Answer(op, args, ret) ==
    /\ ~Answered
    /\ last' = [op |-> op, args |-> args, ret |-> ret]
    /\ UNCHANGED <<state, overlays, log, steps>>
    /\ UNCHANGED lock_vars

\* a write through an overlay
ApplyWorld(op, args, new_world) ==
    /\ ~Answered
    /\ steps < MaxOps
    /\ state' = new_world.state
    /\ overlays' = new_world.overlays
    /\ last' = [op |-> op, args |-> args, ret |-> Ok(<<>>)]
    /\ steps' = steps + 1
    /\ UNCHANGED log
    /\ UNCHANGED lock_vars

GetRaw ==
    \E key \in RawKeys : Answer("get_raw", <<key>>, get_raw(state, key))

UpdateRaw ==
    \E key \in RawKeys, value \in SmtValues :
        /\ Apply("update_raw", <<key, value>>, update_raw(state, key, value))
        /\ log' = [log EXCEPT !.written[key] = value]
        /\ UNCHANGED overlays

GetAccountCount == Answer("get_account_count", <<>>, get_account_count(state))

SetAccountCount ==
    \E count \in AccountCounts :
        /\ Apply("set_account_count", <<count>>, set_account_count(state, count))
        /\ UNCHANGED <<log, overlays>>

CalculateRoot == Answer("calculate_root", <<>>, calculate_root(state))

MerkleProof ==
    \E keys \in ProofKeys :
        \E n \in 0..Len(keys) :
            LET leaves == ClaimedLeaves(state, keys, n) IN
            Answer("merkle_proof", <<leaves>>, merkle_proof(state, leaves))

PushBlock ==
    \E block \in Blocks :
        /\ Apply("push_block", <<block>>, push_block(state, block))
        /\ log' = [log EXCEPT !.blocks[block.raw.number] = RawL2Block_hash(block.raw)]
        /\ UNCHANGED overlays

BlockMerkleProof ==
    \E number \in {0, 1} :
        Answer("block_merkle_proof", <<number>>, block_merkle_proof(state, number))

InsertScript ==
    \E <<script_hash, script>> \in ScriptInserts :
        /\ Apply("insert_script", <<script_hash, script>>,
                 insert_script(state, script_hash, script))
        /\ log' = [log EXCEPT !.scripts[script_hash] = <<script>>]
        /\ UNCHANGED overlays

InsertCode ==
    \E <<code_hash, code>> \in CodeInserts :
        /\ Apply("insert_code", <<code_hash, code>>, insert_code(state, code_hash, code))
        /\ log' = [log EXCEPT !.codes[code_hash] = <<code>>]
        /\ UNCHANGED overlays

GetScript ==
    \E script_hash \in CodeHashes :
        Answer("get_script", <<script_hash>>, get_script(state, script_hash))

GetCode ==
    \E code_hash \in CodeHashes :
        Answer("get_code", <<code_hash>>, get_code(state, code_hash))

NewOverlay ==
    \E i \in OverlayIds :
        /\ overlays[i] = <<>>
        /\ \A j \in OverlayIds : j < i => overlays[j] # <<>>
        /\ ~Answered
        /\ overlays' = [overlays EXCEPT ![i] = <<new_overlay(state)[2]>>]
        /\ last' = [op |-> "new_overlay", args |-> <<i>>, ret |-> Ok(<<>>)]
        /\ UNCHANGED <<state, log, steps>>
        /\ UNCHANGED lock_vars

\* the overlay is dropped, its writes with it
DiscardOverlay ==
    \E i \in OverlayIds :
        /\ overlays[i] # <<>>
        /\ ApplyWorld("discard", <<i>>, [World EXCEPT !.overlays[i] = <<>>])

OverlayGetRaw ==
    \E i \in OverlayIds, key \in OverlayKeys :
        /\ overlays[i] # <<>>
        /\ Answer("overlay.get_raw", <<i, key>>, Overlay_get_raw(World, i, key))

OverlayUpdateRaw ==
    \E i \in OverlayIds, <<key, value>> \in OverlayUpdates :
        /\ overlays[i] # <<>>
        /\ ApplyWorld("overlay.update_raw", <<i, key, value>>,
                      Overlay_update_raw(World, i, key, value))

OverlayGetAccountCount ==
    \E i \in OverlayIds :
        /\ overlays[i] # <<>>
        /\ Answer("overlay.get_account_count", <<i>>, Overlay_get_account_count(World, i))

OverlaySetAccountCount ==
    \E i \in OverlayIds, count \in {2} :
        /\ overlays[i] # <<>>
        /\ ApplyWorld("overlay.set_account_count", <<i, count>>,
                      Overlay_set_account_count(World, i, count))

OverlayInsertScript ==
    \E i \in OverlayIds, <<script_hash, script>> \in OverlayInserts :
        /\ overlays[i] # <<>>
        /\ ApplyWorld("overlay.insert_script", <<i, script_hash, script>>,
                      Overlay_insert_script(World, i, script_hash, script))

OverlayInsertCode ==
    \E i \in OverlayIds, <<code_hash, code>> \in {<<1, <<2>>>>} :
        /\ overlays[i] # <<>>
        /\ ApplyWorld("overlay.insert_code", <<i, code_hash, code>>,
                      Overlay_insert_code(World, i, code_hash, code))

OverlayGetScript ==
    \E i \in OverlayIds, script_hash \in {1} :
        /\ overlays[i] # <<>>
        /\ Answer("overlay.get_script", <<i, script_hash>>,
                  Overlay_get_script(World, i, script_hash))

OverlayGetCode ==
    \E i \in OverlayIds, code_hash \in {1} :
        /\ overlays[i] # <<>>
        /\ Answer("overlay.get_code", <<i, code_hash>>, Overlay_get_code(World, i, code_hash))

StateInit ==
    /\ call = NoCall
    /\ result = "pending"
    /\ signing_message = NoMessage
    /\ rlp_data = <<>>
    /\ manage = {}
    /\ conversion = NoConversion
    /\ EngineIdle

\* the operations of the StateImpl itself
StateNext ==
    \/ GetRaw
    \/ UpdateRaw
    \/ GetAccountCount
    \/ SetAccountCount
    \/ CalculateRoot
    \/ MerkleProof
    \/ PushBlock
    \/ BlockMerkleProof
    \/ InsertScript
    \/ InsertCode
    \/ GetScript
    \/ GetCode

StateSpec == StateInit /\ [][StateNext]_vars

\* the StateImpl written to while overlays are made from it, written to and dropped
OverlayNext ==
    \/ UpdateRaw
    \/ SetAccountCount
    \/ InsertScript
    \/ InsertCode
    \/ NewOverlay
    \/ DiscardOverlay
    \/ OverlayGetRaw
    \/ OverlayUpdateRaw
    \/ OverlayGetAccountCount
    \/ OverlaySetAccountCount
    \/ OverlayInsertScript
    \/ OverlayInsertCode
    \/ OverlayGetScript
    \/ OverlayGetCode

OverlaySpec == StateInit /\ [][OverlayNext]_vars

\* the StateImpl with new_overlay among its reads
ReadNext ==
    \/ StateNext
    \/ NewOverlay

ReadSpec == StateInit /\ [][ReadNext]_vars

-----------------------------------------------------------------------------
(* AccountLockManage: the registry of the lock algorithms by code hash, and  *)
(* the verification of a transaction or a withdrawal through it             *)

\* AccountLockManage::register_lock_algorithm
register_lock_algorithm(self, code_hash, algorithm) == HashMap_insert(self, code_hash, algorithm)

\* a lookup that falls back to a registered algorithm
get_lock_algorithm_or_any(self, code_hash) ==
    IF HashMap_get(self, code_hash) # <<>> \/ self = {} THEN HashMap_get(self, code_hash)
    ELSE <<(CHOOSE e \in self : TRUE)[2]>>

\* AccountLockManage::get_lock_algorithm: None for a code hash that was not registered
get_lock_algorithm(self, code_hash) == HashMap_get(self, code_hash)

\* the operation of the algorithm that was looked up, on the arguments of a call
LockAlgorithm_verify(algorithm, c) ==
    IF c.op = "verify_tx"
    THEN IF algorithm = "Secp256k1"
         THEN Secp256k1_verify_tx(c.ctx, c.sender_script, c.receiver_script, c.tx)
         ELSE IF algorithm = "Secp256k1Eth"
         THEN Secp256k1Eth_verify_tx(c.ctx, c.sender_script, c.receiver_script, c.tx).out
         ELSE Secp256k1Tron_verify_tx(c.ctx, c.sender_script, c.receiver_script, c.tx)
    ELSE IF algorithm = "Secp256k1"
         THEN Secp256k1_verify_withdrawal_signature(c.lock_args, c.signature, c.message)
         ELSE IF algorithm = "Secp256k1Eth"
         THEN Secp256k1Eth_verify_withdrawal_signature(c.lock_args, c.signature, c.message)
         ELSE Secp256k1Tron_verify_withdrawal_signature(c.lock_args, c.signature, c.message)

\* the caller: the lock algorithm of the code hash is looked up and asked;
\* UnknownAccountLock if there is none
verify_by_lock(self, code_hash, c) ==
    LET algorithm == get_lock_algorithm(self, code_hash) IN
    IF algorithm = <<>> THEN Outcome("UnknownAccountLock", NoMessage)
    ELSE LockAlgorithm_verify(algorithm[1], c)

\* the code hashes of the locks
LockCodeHashes == {1, 2}

\* the transactions and withdrawals that come in: signed by key 1 under each convention
IncomingCalls ==
    LET sender == NewScript(Zeros(32) \o keccak160(PublicKey(1)))
        raw    == CHOOSE t \in FewRawTxs : t.args = <<>>
    IN  { VerifyTxCall("AccountLockManage", DefaultContext, sender, DefaultReceiver, raw, Sign(1, z, 7)) :
            z \in SignedDigests(calc_message(raw, 0, ScriptHash(sender),
                                             ScriptHash(DefaultReceiver))) }
        \cup { WithdrawalCall("AccountLockManage", lock_args, Sign(1, z, 7), CanonBase) :
                  lock_args \in {sender.args, Zeros(32) \o blake160(PublicKey(1))},
                  z \in SignedDigests(CanonBase) }

\* registration, before anything is verified
RegisterLockAlgorithm ==
    /\ call = NoCall
    /\ \E code_hash \in LockCodeHashes, algorithm \in Schemes :
          manage' = register_lock_algorithm(manage, code_hash, algorithm)
    /\ UNCHANGED <<call, result, signing_message, rlp_data, conversion>>
    /\ UNCHANGED engine_vars

\* a transaction or a withdrawal under a lock: verified through the registry, and
\* applied to the state (here: one write) only if it verified
Admit(c, code_hash) ==
    LET out == verify_by_lock(manage, code_hash, c) IN
    /\ call = NoCall
    /\ call' = [f \in DOMAIN c \cup {"code_hash"} |->
                    IF f = "code_hash" THEN code_hash ELSE c[f]]
    /\ result' = out.result
    /\ signing_message' = out.signing_message
    /\ state' = IF out.result = "Ok(true)" THEN update_raw(state, 0, 1) ELSE state
    /\ UNCHANGED <<rlp_data, manage, conversion, overlays, last, log, steps>>

AdmitTransaction ==
    \E c \in IncomingCalls, code_hash \in LockCodeHashes :
        c.op = "verify_tx" /\ Admit(c, code_hash)

AdmitWithdrawal ==
    \E c \in IncomingCalls, code_hash \in LockCodeHashes :
        c.op = "verify_withdrawal_signature" /\ Admit(c, code_hash)

ManageNext ==
    \/ RegisterLockAlgorithm
    \/ AdmitTransaction
    \/ AdmitWithdrawal

ManageSpec == StateInit /\ [][ManageNext]_vars

-----------------------------------------------------------------------------
(* The JSON and the packed form of a GlobalState, of                        *)
(* crates/jsonrpc-types/src/godwoken.rs.  A Uint32 or Uint64 of the JSON    *)
(* form is its bytes, big-endian, as every integer above; a packed number   *)
(* is its bytes in little-endian order, a packed byte a number below 256,    *)
(* and a packed Byte32 the 32 bytes of the H256.                             *)

\* x as u8: the low byte
as_u8(x) == x[Len(x)]

\* b as u32, for a u8 b
as_u32(b) == <<0, 0, 0, b>>

\* Pack of a u32 or a u64
Uint_pack(x) == to_le_bytes(x)

\* Unpack of a packed Uint32 or Uint64
Uint_unpack(bytes) == from_le_bytes(bytes)

\* From<AccountMerkleState> for packed::AccountMerkleState
AccountMerkleState_into_packed(json) ==
    [merkle_root |-> as_slice(json.merkle_root), count |-> Uint_pack(json.count)]

\* From<packed::AccountMerkleState> for AccountMerkleState
AccountMerkleState_from_packed(account_merkel_state) ==
    LET count == Uint_unpack(account_merkel_state.count) IN
    [merkle_root |-> H256_from(account_merkel_state.merkle_root), count |-> count]

\* From<BlockMerkleState> for packed::BlockMerkleState
BlockMerkleState_into_packed(json) ==
    LET count == json.count IN
    [merkle_root |-> as_slice(json.merkle_root), count |-> Uint_pack(count)]

\* From<packed::BlockMerkleState> for BlockMerkleState
BlockMerkleState_from_packed(block_merkle_state) ==
    LET count == Uint_unpack(block_merkle_state.count) IN
    [merkle_root |-> H256_from(block_merkle_state.merkle_root), count |-> count]

\* From<GlobalState> for packed::GlobalState
GlobalState_into_packed(json) ==
    LET last_finalized_block_number == json.last_finalized_block_number
        status == json.status
    IN  [account                     |-> AccountMerkleState_into_packed(json.account),
         block                       |-> BlockMerkleState_into_packed(json.block),
         reverted_block_root         |-> as_slice(json.reverted_block_root),
         last_finalized_block_number |-> Uint_pack(last_finalized_block_number),
         status                      |-> as_u8(status)]

\* From<packed::GlobalState> for GlobalState
GlobalState_from_packed(global_state) ==
    LET last_finalized_block_number == Uint_unpack(global_state.last_finalized_block_number)
        status == global_state.status
    IN  [account                     |-> AccountMerkleState_from_packed(global_state.account),
         block                       |-> BlockMerkleState_from_packed(global_state.block),
         reverted_block_root         |-> H256_from(global_state.reverted_block_root),
         last_finalized_block_number |-> last_finalized_block_number,
         status                      |-> as_u32(status)]

\* the values converted: numbers at both ends of their width and around a byte's,
\* roots that differ
Uint32s == {U32(0), U32(1), U32(255), U32(256), U32(257), <<255, 255, 255, 255>>}

Uint64s == {Zeros(8), as_u64(U32(1)), <<1, 2, 3, 4, 5, 6, 7, 8>>}

Roots == {0, 258}

JsonGlobalStates ==
    { [account                     |-> [merkle_root |-> root, count |-> count],
       block                       |-> [merkle_root |-> 0, count |-> number],
       reverted_block_root         |-> root,
       last_finalized_block_number |-> number,
       status                      |-> status] :
      root \in Roots, count \in {U32(1), U32(256)}, number \in Uint64s, status \in Uint32s }

PackedGlobalStates ==
    { [account                     |-> [merkle_root |-> as_slice(root),
                                        count       |-> Reverse(count)],
       block                       |-> [merkle_root |-> as_slice(0),
                                        count       |-> Reverse(number)],
       reverted_block_root         |-> as_slice(root),
       last_finalized_block_number |-> Reverse(number),
       status                      |-> status] :
      root \in Roots, count \in {U32(1), U32(256)}, number \in Uint64s,
      status \in {0, 1, 2, 255} }

\* a GlobalState is given, in its JSON form or in its packed form
JsonInit ==
    /\ call = NoCall
    /\ result = "pending"
    /\ signing_message = NoMessage
    /\ rlp_data = <<>>
    /\ manage = {}
    /\ EngineIdle
    /\ \/ \E json \in JsonGlobalStates :
             conversion = [form |-> "json", given |-> json, held |-> json, trips |-> 0]
       \/ \E global_state \in PackedGlobalStates :
             conversion = [form |-> "packed", given |-> global_state,
                           held |-> global_state, trips |-> 0]

\* json.into(): the packed form of the JSON value held
IntoPacked ==
    /\ conversion.form = "json"
    /\ conversion.trips < 2
    /\ conversion' = [conversion EXCEPT !.form  = "packed",
                                        !.held  = GlobalState_into_packed(@),
                                        !.trips = @ + 1]
    /\ UNCHANGED <<call, result, signing_message, rlp_data, manage>>
    /\ UNCHANGED engine_vars

\* global_state.into(): the JSON form of the packed value held
IntoJson ==
    /\ conversion.form = "packed"
    /\ conversion.trips < 2
    /\ conversion' = [conversion EXCEPT !.form  = "json",
                                        !.held  = GlobalState_from_packed(@),
                                        !.trips = @ + 1]
    /\ UNCHANGED <<call, result, signing_message, rlp_data, manage>>
    /\ UNCHANGED engine_vars

JsonNext ==
    \/ IntoPacked
    \/ IntoJson

JsonSpec == JsonInit /\ [][JsonNext]_vars

-----------------------------------------------------------------------------
(* What the claims speak of, read off the call and the library alone *)

Done == result # "pending"

LockArgsOf == IF call.op = "verify_tx" THEN call.sender_script.args ELSE call.lock_args

SignatureOf == IF call.op = "verify_tx" THEN call.tx.signature ELSE call.signature

\* the canonical Godwoken message of the call
CanonicalOf ==
    IF call.op = "verify_tx"
    THEN calc_message(call.tx.raw, call.ctx.rollup_script_hash,
                      ScriptHash(call.sender_script), ScriptHash(call.receiver_script))
    ELSE call.message

\* the recovery id a scheme reads from the last signature byte
RecIdOf(scheme, byte) ==
    IF scheme = "Secp256k1Tron" THEN (IF byte = 28 THEN <<1>> ELSE <<0>>)
    ELSE IF byte \in 0..3 THEN <<byte>> ELSE <<>>

\* the public key the library recovers from the signature for a digest, <<>> when the
\* recovery id is bad, the compact part does not parse or no key can be recovered
RecoveredFor(scheme, signature, digest) ==
    LET rid == RecIdOf(scheme, signature[65]) IN
    IF rid = <<>> THEN <<>>
    ELSE LET sig == from_compact(Slice(signature, 0, 64), rid[1]) IN
         IF sig = <<>> THEN <<>> ELSE recover(digest, sig[1])

Recovered == RecoveredFor(call.scheme, SignatureOf, signing_message)

\* the 20-byte identity a scheme derives from a public key
IdentityOf(scheme, pubkey) ==
    IF scheme = "Secp256k1" THEN blake160(pubkey) ELSE keccak160(pubkey)

DiffersInOneByte(a, b) == Cardinality({i \in 1..65 : a[i] # b[i]}) = 1

\* the result the library's recovery and the identity comparison give for a digest
ExpectedResult(scheme, lock_args, signature, digest) ==
    IF Len(lock_args) # 52 THEN "InvalidLockArgs"
    ELSE LET rec == RecoveredFor(scheme, signature, digest) IN
         IF rec = <<>> THEN "InvalidSignature"
         ELSE IF IdentityOf(scheme, rec[1]) = Slice(lock_args, 32, 52) THEN "Ok(true)"
         ELSE "Ok(false)"

EthVerifyTxDone == Done /\ call.scheme = "Secp256k1Eth" /\ call.op = "verify_tx"

MagicPrefixed(args) == Len(args) >= 7 /\ SubSeq(args, 1, 7) = PolyjuiceMagic

\* the little-endian u32 at args[48..52]
DeclaredPayloadLength(args) == BeNat(Reverse(SubSeq(args, 49, 52)))

\* magic-prefixed, but truncated or with a payload length that does not match
Malformed(args) ==
    /\ MagicPrefixed(args)
    /\ \/ Len(args) < 52
       \/ DeclaredPayloadLength(args) # Len(args) - 52

\* everything the assembly needs is there
Assemblable(raw, receiver_script) ==
    /\ MagicPrefixed(raw.args)
    /\ Len(raw.args) >= 52
    /\ DeclaredPayloadLength(raw.args) = Len(raw.args) - 52
    /\ (raw.args[8] = 3 \/ Len(receiver_script.args) >= 36)

\* the items of the assembled list
AssembledItems == RlpDecodeList(rlp_data[1])

\* verify_tx of the call's scheme under another context
VerifyTxUnder(ctx) ==
    IF call.scheme = "Secp256k1"
    THEN Secp256k1_verify_tx(ctx, call.sender_script, call.receiver_script, call.tx)
    ELSE IF call.scheme = "Secp256k1Eth"
    THEN Secp256k1Eth_verify_tx(ctx, call.sender_script, call.receiver_script, call.tx).out
    ELSE Secp256k1Tron_verify_tx(ctx, call.sender_script, call.receiver_script, call.tx)

-----------------------------------------------------------------------------
(* The claims *)

\* C1: for every scheme, verify_tx and verify_withdrawal_signature return
\* InvalidLockArgs whenever the lock args are not exactly 52 bytes long, whatever the
\* signature, message and transaction args are; never Ok(true) or Ok(false).
C1_WrongLengthIsInvalidLockArgs ==
    (Done /\ Len(LockArgsOf) # 52) => result = "InvalidLockArgs"

\* a Tron call on 51-byte lock args with a malformed signature
C1_Witness ==
    /\ result = "InvalidLockArgs"
    /\ call.scheme = "Secp256k1Tron"
    /\ Len(LockArgsOf) = 51
    /\ Scalar32(Slice(SignatureOf, 0, 32)) >= CurveOrder

\* C2: for every scheme, with 52-byte lock args and a structurally valid signature,
\* the result is Ok(true) exactly when the 20-byte hash of the recovered public key
\* equals lock_args[32..52], and Ok(false), not an error, when it differs.
C2_ResultIsIdentityMatch ==
    (Done /\ Len(LockArgsOf) = 52 /\ Recovered # <<>>) =>
        result = (IF IdentityOf(call.scheme, Recovered[1]) = Slice(LockArgsOf, 32, 52)
                  THEN "Ok(true)" ELSE "Ok(false)")

\* a valid signature of another key under the Ethereum scheme
C2_Witness ==
    /\ result = "Ok(false)"
    /\ call.scheme = "Secp256k1Eth"
    /\ Len(LockArgsOf) = 52
    /\ Recovered # <<>>
    /\ IdentityOf(call.scheme, Recovered[1]) # Slice(LockArgsOf, 32, 52)

\* C3: for every scheme, with 52-byte lock args, a structurally invalid signature (a
\* recovery id byte the scheme has no recovery id for, a compact part that does not
\* parse, or a signature no public key can be recovered from) yields InvalidSignature,
\* never Ok(true) or Ok(false).
C3_MalformedIsInvalidSignature ==
    (Done /\ Len(LockArgsOf) = 52 /\ Recovered = <<>>) => result = "InvalidSignature"

\* a recovery id byte outside 0..3 under Scheme A
C3_Witness ==
    /\ result = "InvalidSignature"
    /\ call.scheme = "Secp256k1"
    /\ Len(LockArgsOf) = 52
    /\ SignatureOf[65] > 3
    /\ from_compact(Slice(SignatureOf, 0, 64), 0) # <<>>

C8_ChainIdFromReceiver ==
    (EthVerifyTxDone /\ rlp_data # <<>>) =>
        /\ Len(call.receiver_script.args) >= 36
        /\ AssembledItems[7] =
              StripZeros(call.ctx.rollup_config.compatible_chain_id
                           \o Reverse(SubSeq(call.receiver_script.args, 33, 36)))

\* C8 (amended): the chain id is (rollup id << 32) | c, where c is the little-endian
\* u32 at receiver args[32..36] for a call and the transaction's to_id for a contract
\* creation (flag byte 3); the high 32 bits are the rollup id, the low 32 bits c.
C8_ChainIdHalves ==
    (EthVerifyTxDone /\ rlp_data # <<>>) =>
        AssembledItems[7] =
            StripZeros(call.ctx.rollup_config.compatible_chain_id
                         \o (IF call.tx.raw.args[8] = 3 THEN call.tx.raw.to_id
                             ELSE Reverse(SubSeq(call.receiver_script.args, 33, 36))))

\* both halves with every bit set
C8_Witness ==
    /\ EthVerifyTxDone /\ rlp_data # <<>>
    /\ call.tx.raw.args[8] # 3
    /\ call.ctx.rollup_config.compatible_chain_id = <<255, 255, 255, 255>>
    /\ AssembledItems[7] = <<255, 255, 255, 255, 255, 255, 255, 255>>

\* C9: Secp256k1Tron reads recovery id 1 from the byte value 28 and recovery id 0 from
\* every other value of the 65th signature byte, so that no value of that byte is
\* rejected as a recovery id: InvalidSignature comes from the other 64 bytes only.
C9_TronRecoveryId ==
    (Done /\ call.scheme = "Secp256k1Tron" /\ Len(LockArgsOf) = 52) =>
        LET sig == from_compact(Slice(SignatureOf, 0, 64),
                                IF SignatureOf[65] = 28 THEN 1 ELSE 0)
            rec == IF sig = <<>> THEN <<>> ELSE recover(signing_message, sig[1])
        IN  /\ result = (IF rec = <<>> THEN "InvalidSignature"
                         ELSE IF keccak160(rec[1]) = Slice(LockArgsOf, 32, 52)
                              THEN "Ok(true)" ELSE "Ok(false)")
            /\ \A b \in Byte :
                  Secp256k1Tron_parse([SignatureOf EXCEPT ![65] = b]) = <<>>
                      <=> sig = <<>>

\* a signature ending in 27, Tron's encoding of recovery id 0, accepted
C9_Witness ==
    /\ Done /\ call.scheme = "Secp256k1Tron"
    /\ SignatureOf[65] = 27
    /\ result = "Ok(true)"

\* C10 (as claimed): for every scheme and path of verify_tx, another context with a
\* different rollup_script_hash gives a different signing message, and a signature
\* accepted under one context is not accepted under the other.
C10_SeparatedByRollupHash ==
    (Done /\ call.op = "verify_tx") =>
        \A ctx2 \in Contexts :
            ctx2.rollup_script_hash # call.ctx.rollup_script_hash =>
                /\ signing_message # NoMessage =>
                       VerifyTxUnder(ctx2).signing_message # signing_message
                /\ ~(result = "Ok(true)" /\ VerifyTxUnder(ctx2).result = "Ok(true)")

\* C10 (amended): on Scheme A, Scheme C and Scheme B's fallback path a different
\* rollup_script_hash gives a different signing message and a signature accepted under
\* one context is not accepted under the other.  On Scheme B's polyjuice path the
\* signing message does not depend on rollup_script_hash: it depends on the context
\* through rollup_config.compatible_chain_id alone, and it is a different
\* compatible_chain_id that gives a different message and rejects the signature.
C10_SeparationPerPath ==
    (Done /\ call.op = "verify_tx") =>
        \A ctx2 \in Contexts :
            IF call.scheme = "Secp256k1Eth" /\ rlp_data # <<>>
            THEN IF ctx2.rollup_config = call.ctx.rollup_config
                 THEN /\ VerifyTxUnder(ctx2).signing_message = signing_message
                      /\ VerifyTxUnder(ctx2).result = result
                 ELSE /\ VerifyTxUnder(ctx2).signing_message # signing_message
                      /\ ~(result = "Ok(true)" /\ VerifyTxUnder(ctx2).result = "Ok(true)")
            ELSE ctx2.rollup_script_hash # call.ctx.rollup_script_hash =>
                   /\ signing_message # NoMessage =>
                          VerifyTxUnder(ctx2).signing_message # signing_message
                   /\ ~(result = "Ok(true)" /\ VerifyTxUnder(ctx2).result = "Ok(true)")

\* a polyjuice transaction accepted under two rollups that share a chain id
C10_Witness ==
    /\ EthVerifyTxDone /\ rlp_data # <<>> /\ result = "Ok(true)"
    /\ \E ctx2 \in Contexts :
          /\ ctx2.rollup_script_hash # call.ctx.rollup_script_hash
          /\ VerifyTxUnder(ctx2).result = "Ok(true)"

-----------------------------------------------------------------------------
(* The state engine: what the claims speak of *)

\* the value last written to a key by update_raw, the zero value if none was
LastWritten(key) ==
    IF key \in DOMAIN log.written /\ log.written[key] # 0 - 1 THEN log.written[key] ELSE 0

\* C11: after any sequence of operations get_raw(k) is Ok of the value of the last
\* update_raw(k, v), and Ok of the zero value for a key never written; what a
\* get_raw call answered is that value, whatever was written to the other keys.
C11_GetRawIsLastWritten ==
    /\ \A key \in SmtKeys : get_raw(state, key) = Ok(LastWritten(key))
    /\ last.op = "get_raw" => last.ret = Ok(LastWritten(last.args[1]))

\* a key read after it and the two other keys were written
C11_Witness ==
    /\ last.op = "get_raw"
    /\ log.written[last.args[1]] = 2
    /\ \A other \in RawKeys \ {last.args[1]} : log.written[other] = 1
    /\ last.ret = Ok(2)

\* the node over the keys index * 2^height .. of the tree that holds, for every key,
\* the value last written to it: computed from the mapping, bottom up
RECURSIVE MappingNode(_, _)
MappingNode(height, index) ==
    IF height = 0 THEN hash_leaf(index, LastWritten(index))
    ELSE merge(MappingNode(height - 1, 2 * index), MappingNode(height - 1, 2 * index + 1))

\* C12: calculate_root is a function of the final key -> value mapping only: after
\* any sequence of update_raw calls, in any order and with any overwritten writes, it
\* is the root of the tree built from the value each key ends with.
C12_RootOfFinalMapping ==
    /\ calculate_root(state) = Ok(MappingNode(TreeHeight, 0))
    /\ last.op = "calculate_root" => last.ret = Ok(MappingNode(TreeHeight, 0))

\* the root asked for after three writes, one of them taking a value back to zero
C12_Witness ==
    /\ last.op = "calculate_root"
    /\ steps = MaxOps
    /\ \E k1, k2 \in RawKeys : log.written[k1] > 0 /\ log.written[k2] = 0
    /\ last.ret # Ok(H256_zero)

\* the leaves hold, for every key, the value the account tree holds
HeldLeaves(leaves) ==
    \A n \in 1..Len(leaves) : leaves[n][2] = SMT_get(state.tree, leaves[n][1])

\* C13: for a non-empty set of keys paired with the values the account tree holds,
\* merkle_proof returns bytes that verify against calculate_root for those pairs, and
\* that do not verify once the value of any single key is replaced by another value.
C13_ProofSoundness ==
    (last.op = "merkle_proof" /\ Len(last.args[1]) > 0 /\ HeldLeaves(last.args[1])) =>
        LET leaves == last.args[1]
            root   == calculate_root(state)[2]
        IN  /\ last.ret[1] = "Ok"
            /\ verify(last.ret[2], root, leaves)
            /\ \A n \in 1..Len(leaves) :
                   \A value \in SmtValues \ {leaves[n][2]} :
                       ~verify(last.ret[2], root, [leaves EXCEPT ![n][2] = value])

\* a proof of a key that is present and a key that is absent, in a tree that holds a
\* third key
C13_Witness ==
    /\ last.op = "merkle_proof"
    /\ Len(last.args[1]) = 2
    /\ HeldLeaves(last.args[1])
    /\ last.args[1][1][2] # 0
    /\ last.args[1][2][2] = 0
    /\ \E key \in RawKeys \ KeysOf(last.args[1]) : SMT_get(state.tree, key) # 0
    /\ last.ret[1] = "Ok"
    /\ last.ret[2] # {}

\* C14: merkle_proof(leaves) fails whenever at least one supplied (key, value) pair
\* carries a value other than the one the account tree holds for that key; it never
\* returns proof bytes for a mismatching claimed value.
C14_MismatchIsError ==
    (last.op = "merkle_proof" /\ Len(last.args[1]) > 0 /\ ~HeldLeaves(last.args[1])) =>
        last.ret[1] = "Err"

\* the operations that write through an overlay, and the dropping of one
OverlayWrites ==
    {"overlay.update_raw", "overlay.set_account_count", "overlay.insert_script",
     "overlay.insert_code", "discard"}

\* what the StateImpl answers: get_raw for every key, calculate_root, the account
\* count and the lookups of the code store
Answers(self) ==
    [raw     |-> [key \in SmtKeys |-> get_raw(self, key)],
     root    |-> calculate_root(self),
     count   |-> get_account_count(self),
     scripts |-> [h \in CodeHashes |-> get_script(self, h)],
     codes   |-> [h \in CodeHashes |-> get_code(self, h)]]

\* C15: no write on an overlay (raw update, account count, script or code insert),
\* and no dropping of an overlay, changes what the StateImpl it was made from answers
\* to get_raw for any key, to calculate_root, to get_account_count or to the lookups
\* of its code store.
C15_OverlayLeavesState ==
    [][last'.op \in OverlayWrites => Answers(state') = Answers(state)]_vars

\* an overlay written to, so that it reads a value the StateImpl does not hold, over
\* a StateImpl that was written to before
C15_Witness ==
    /\ last.op = "overlay.update_raw"
    /\ state.tree.root # H256_zero
    /\ Overlay_get_raw(World, last.args[1], last.args[2])
           # get_raw(state, last.args[2])

\* what an overlay answers: get_raw for every key, the account count and the lookups
\* of its code store
OverlayAnswers(world, i) ==
    [raw     |-> [key \in SmtKeys |-> Overlay_get_raw(world, i, key)],
     count   |-> Overlay_get_account_count(world, i),
     scripts |-> [h \in CodeHashes |-> Overlay_get_script(world, i, h)],
     codes   |-> [h \in CodeHashes |-> Overlay_get_code(world, i, h)]]

\* C16: of two overlays made from the same StateImpl, with their writes interleaved in
\* any order, a write through one (or the dropping of it) changes nothing of what the
\* other answers: no read through an overlay returns what was written only through
\* the other.
C16_OverlaysApart ==
    [][last'.op \in OverlayWrites =>
          \A i \in OverlayIds \ {last'.args[1]} :
              overlays[i] # <<>> =>
                  /\ overlays'[i] # <<>>
                  /\ OverlayAnswers(World', i) = OverlayAnswers(World, i)]_vars

\* two overlays that each wrote its own value to the same key, one of them last
C16_Witness ==
    /\ last.op = "overlay.update_raw"
    /\ \E i \in OverlayIds \ {last.args[1]} :
          /\ overlays[i] # <<>>
          /\ HashMap_get(overlays[i][1].tree.store.buffer, last.args[2]) # <<>>
          /\ Overlay_get_raw(World, i, last.args[2])
                 # Overlay_get_raw(World, last.args[1], last.args[2])

\* C17: account_count is never smaller than it was in an earlier state: no operation
\* of the State interface, set_account_count included, decrements it.
C17_AccountCountNeverDecreases ==
    [][get_account_count(state')[2] >= get_account_count(state)[2]]_vars

\* C18: get_script(h) and get_code(h) return the entry of the last insert_script(h, .)
\* and insert_code(h, .), and None, not an error, when nothing was inserted for h; an
\* entry once present is never absent later; inserting the (hash, content) pair the
\* store holds leaves the StateImpl unchanged.
C18_CodeStoreLookup ==
    [][/\ \A h \in CodeHashes :
             /\ get_script(state', h) = log'.scripts[h]
             /\ get_code(state', h) = log'.codes[h]
             /\ get_script(state, h) # <<>> => get_script(state', h) # <<>>
             /\ get_code(state, h) # <<>> => get_code(state', h) # <<>>
       /\ last'.op = "get_script" => last'.ret = log'.scripts[last'.args[1]]
       /\ last'.op = "get_code" => last'.ret = log'.codes[last'.args[1]]
       /\ (last'.op = "insert_script" /\ get_script(state, last'.args[1]) = <<last'.args[2]>>)
              => state' = state
       /\ (last'.op = "insert_code" /\ get_code(state, last'.args[1]) = <<last'.args[2]>>)
              => state' = state]_vars

\* a script looked up after two inserts for its hash and nothing else
C18_Witness ==
    /\ last.op = "get_script"
    /\ last.args = <<1>>
    /\ last.ret = <<NewScript(<<1>>)>>
    /\ steps = 2
    /\ Cardinality(state.scripts) = 1 /\ state.codes = {}
    /\ \A key \in RawKeys : log.written[key] = 0 - 1
    /\ state.account_count = 0 /\ state.block_tree.root = H256_zero

\* C19: insert_script and insert_code leave calculate_root, every get_raw result, the
\* account count and the block tree unchanged.
C19_CodeStoreOutsideRoot ==
    [][last'.op \in {"insert_script", "insert_code"} =>
          /\ calculate_root(state') = calculate_root(state)
          /\ \A key \in SmtKeys : get_raw(state', key) = get_raw(state, key)
          /\ get_account_count(state') = get_account_count(state)
          /\ state'.block_tree = state.block_tree]_vars

\* a code inserted into a StateImpl whose two trees hold something
C19_Witness ==
    /\ last.op = "insert_code"
    /\ get_code(state, last.args[1]) = <<last.args[2]>>
    /\ calculate_root(state) # Ok(H256_zero)
    /\ state.block_tree.root # H256_zero

\* C20: push_block(block) writes the hash of the block into the block tree at the key
\* of the block's number, the key block_merkle_proof(number) proves, and at no other
\* key; it writes nothing into the account tree: calculate_root and every get_raw
\* result are as before.
C20_PushBlockByNumber ==
    [][last'.op = "push_block" =>
          LET raw   == last'.args[1].raw
              key   == compute_smt_key(raw.number)
              proof == block_merkle_proof(state', raw.number)
          IN  /\ SMT_get(state'.block_tree, key) = RawL2Block_hash(raw)
              /\ \A other \in SmtKeys \ {key} :
                     SMT_get(state'.block_tree, other) = SMT_get(state.block_tree, other)
              /\ proof[1] = "Ok"
              /\ verify(proof[2], state'.block_tree.root, <<(<<key, RawL2Block_hash(raw)>>)>>)
              /\ calculate_root(state') = calculate_root(state)
              /\ \A k \in SmtKeys : get_raw(state', k) = get_raw(state, k)]_vars

\* the block of number 1 pushed after a block of number 0, the account tree holding
\* something
C20_Witness ==
    /\ last.op = "push_block"
    /\ last.args[1].raw.number = 1
    /\ SMT_get(state.block_tree, compute_smt_key(0)) # 0
    /\ SMT_get(state.block_tree, compute_smt_key(1)) = RawL2Block_hash(last.args[1].raw)
    /\ calculate_root(state) # Ok(H256_zero)

\* the algorithms registered for a code hash
RegisteredFor(code_hash) == {e[2] : e \in {x \in manage : x[1] = code_hash}}

\* C21: a lock code hash no algorithm was registered for causes rejection before any
\* mutation of the state; the rejection is UnknownAccountLock, which no lock algorithm
\* returns, and no registered algorithm is asked instead.
C21_UnregisteredIsRejected ==
    call # NoCall =>
        IF RegisteredFor(call.code_hash) = {}
        THEN /\ result = "UnknownAccountLock"
             /\ signing_message = NoMessage
             /\ state = StateImpl_default
        ELSE /\ result # "UnknownAccountLock"
             /\ \E algorithm \in RegisteredFor(call.code_hash) :
                    result = LockAlgorithm_verify(algorithm, call).result

\* a signature that the algorithm registered for another code hash accepts, rejected
\* under a code hash without an algorithm
C21_Witness ==
    /\ call # NoCall
    /\ result = "UnknownAccountLock"
    /\ \E e \in manage : LockAlgorithm_verify(e[2], call).result = "Ok(true)"

\* what the scheme's verify_withdrawal_signature returns for the lock args of the
\* sender, the signature of the transaction and a message
WithdrawalOutcome(message) ==
    IF call.scheme = "Secp256k1"
    THEN Secp256k1_verify_withdrawal_signature(call.sender_script.args, call.tx.signature,
                                               message)
    ELSE IF call.scheme = "Secp256k1Eth"
    THEN Secp256k1Eth_verify_withdrawal_signature(call.sender_script.args, call.tx.signature,
                                                  message)
    ELSE Secp256k1Tron_verify_withdrawal_signature(call.sender_script.args, call.tx.signature,
                                                   message)

C23_BlockProofBindsNumber ==
    last.op = "block_merkle_proof" =>
        LET number == last.args[1]
            key    == compute_smt_key(number)
            root   == state.block_tree.root
        IN  /\ last.ret[1] = "Ok"
            /\ SMT_get(state.block_tree, key) = log.blocks[number]
            /\ verify(last.ret[2], root, <<(<<key, log.blocks[number]>>)>>)
            /\ \A value \in (0..3) \ {log.blocks[number]} :
                   ~verify(last.ret[2], root, <<(<<key, value>>)>>)

\* the proof of a block after three blocks were pushed, two of them with one number
C23_Witness ==
    /\ last.op = "block_merkle_proof"
    /\ last.args[1] = 0
    /\ log.blocks[0] # 0 /\ log.blocks[1] # 0
    /\ steps = 3
    /\ state.tree.root = H256_zero /\ state.account_count = 0
    /\ state.scripts = {} /\ state.codes = {}
    /\ \A key \in RawKeys : log.written[key] = 0 - 1
    /\ last.ret[1] = "Ok" /\ last.ret[2] # {}

\* C24: an overlay made by new_overlay answers as the StateImpl does at that time: its
\* root, its account count, get_raw for every key and its script and code lookups are
\* those of the StateImpl.  After a write to the overlay a read of the written key
\* returns the written value, a read of any other key what it returned before, and a
\* key the overlay did not write reads as in the StateImpl it was made from.
C24_OverlayIsView ==
    [][\A i \in OverlayIds :
          overlays'[i] # <<>> =>
              /\ (last'.op = "new_overlay" /\ last'.args[1] = i) =>
                     /\ overlays'[i][1].tree.root = calculate_root(state')[2]
                     /\ OverlayAnswers(World', i).raw = Answers(state').raw
                     /\ OverlayAnswers(World', i).count = Answers(state').count
                     /\ OverlayAnswers(World', i).scripts = Answers(state').scripts
                     /\ OverlayAnswers(World', i).codes = Answers(state').codes
              /\ (last'.op = "overlay.update_raw" /\ last'.args[1] = i) =>
                     /\ Overlay_get_raw(World', i, last'.args[2]) = Ok(last'.args[3])
                     /\ \A other \in SmtKeys \ {last'.args[2]} :
                            Overlay_get_raw(World', i, other) = Overlay_get_raw(World, i, other)
              /\ \A key \in SmtKeys :
                     HashMap_get(overlays'[i][1].tree.store.buffer, key) = <<>> =>
                         Overlay_get_raw(World', i, key) = get_raw(state', key)]_vars

\* an overlay made of a StateImpl that holds a value, a script and an account count
C24_Witness ==
    /\ last.op = "new_overlay"
    /\ state.tree.root # H256_zero
    /\ state.scripts # {}
    /\ state.account_count # 0
    /\ Overlay_get_script(World, last.args[1], 1) # <<>>

C26_PushBlockFrame ==
    [][last'.op = "push_block" =>
          /\ state'.block_count = state.block_count
          /\ state'.account_count = state.account_count
          /\ state'.scripts = state.scripts
          /\ state'.codes = state.codes]_vars

\* a block pushed to a StateImpl with an account count and a script, the block tree
\* changed by it
C26_Witness ==
    /\ last.op = "push_block"
    /\ state.account_count # 0
    /\ state.scripts # {}
    /\ state.block_tree.root # H256_zero
    /\ state.block_count = 0

\* the first 32 bytes lock args may start with: zeros, the rollup script hash 1, 0xff
LockArgsPrefixes == {Zeros(32), as_slice(1), [i \in 1..32 |-> 255]}

\* C27: for every scheme the outcome does not depend on the first 32 bytes of 52-byte
\* lock args: for the same signature and message, lock args with the same bytes
\* 32..52 and any other first 32 bytes (the rollup script hash of the context or
\* not) give the same result.  The message of verify_tx is the one it derived: the
\* canonical message, or the hash of the assembled polyjuice transaction.
C27_LockArgsPrefixIgnored ==
    (Done /\ Len(LockArgsOf) = 52) =>
        \A prefix \in LockArgsPrefixes :
            LET lock_args == prefix \o SubSeq(LockArgsOf, 33, 52) IN
            IF call.op = "verify_withdrawal_signature"
            THEN LockAlgorithm_verify(call.scheme,
                     WithdrawalCall(call.scheme, lock_args, call.signature, call.message)).result
                   = result
            ELSE IF call.scheme = "Secp256k1Eth" /\ rlp_data # <<>>
            THEN Secp256k1Eth_verify_alone(lock_args, call.tx.signature,
                                           Keccak256(rlp_data[1])).result = result
            ELSE LockAlgorithm_verify(call.scheme,
                     WithdrawalCall(call.scheme, lock_args, call.tx.signature,
                         calc_message(call.tx.raw, call.ctx.rollup_script_hash,
                                      ScriptHash(call.sender_script),
                                      ScriptHash(call.receiver_script)))).result
                   = result

\* a transaction accepted under lock args that do not start with the rollup script
\* hash of the context
C27_Witness ==
    /\ Done /\ call.op = "verify_tx"
    /\ result = "Ok(true)"
    /\ SubSeq(LockArgsOf, 1, 32) # as_slice(call.ctx.rollup_script_hash)

\* the verification repeated on a transaction and a sender script gives the encoding,
\* the signing message and the result of the call
SameVerification(sender_script, tx) ==
    LET other == Secp256k1Eth_verify_tx(call.ctx, sender_script, call.receiver_script, tx)
    IN  /\ other.rlp = rlp_data
        /\ other.out.signing_message = signing_message
        /\ other.out.result = result

\* C28: on the polyjuice path of Secp256k1Eth the signing message does not depend on
\* from_id, nor on the sender script outside the identity bytes args[32..52]: the same
\* transaction with another from_id, and the same transaction verified with a sender
\* script whose args start with other 32 bytes, give the same assembled encoding, the
\* same signing message and the same result.
C28_PolyjuiceMessageInputs ==
    (EthVerifyTxDone /\ rlp_data # <<>>) =>
        /\ \A from_id \in FromIds :
               SameVerification(call.sender_script,
                                [call.tx EXCEPT !.raw.from_id = from_id])
        /\ Len(call.sender_script.args) = 52 =>
               \A from_id \in FromIds, prefix \in LockArgsPrefixes, code_hash \in {0, 1} :
                   SameVerification([call.sender_script EXCEPT
                                        !.code_hash = code_hash,
                                        !.args = prefix \o SubSeq(@, 33, 52)],
                                    [call.tx EXCEPT !.raw.from_id = from_id])

\* a polyjuice transaction of from_id 1, accepted
C28_Witness ==
    /\ EthVerifyTxDone /\ rlp_data # <<>>
    /\ call.tx.raw.from_id = U32(1)
    /\ Len(call.sender_script.args) = 52
    /\ result = "Ok(true)"

\* a conversion to the other form and back has been made
RoundTripDone == conversion.trips = 2

\* C29: a JSON GlobalState converted to its packed form and back is the value given, in
\* every field and for every 32-bit status, and a packed GlobalState converted to JSON
\* and back is the packed value given.
C29_GlobalStateRoundTrip ==
    RoundTripDone => conversion.held = conversion.given

\* what the conversions do keep: every field but status of a JSON value, the low byte
\* of its status, and the whole of a packed value
C29_RoundTripUpToStatusByte ==
    RoundTripDone =>
        /\ [conversion.held EXCEPT !.status = 0] = [conversion.given EXCEPT !.status = 0]
        /\ conversion.form = "packed" => conversion.held = conversion.given
        /\ conversion.form = "json" =>
               conversion.held.status = as_u32(as_u8(conversion.given.status))

\* a JSON status of 256 came back as 0
C29_StatusTruncated ==
    /\ RoundTripDone
    /\ conversion.form = "json"
    /\ conversion.given.status = U32(256)
    /\ conversion.held.status = U32(0)

====
